---- MODULE Spec2Model ----
(***************************************************************************)
(* Verification model of the Peloton core: the host-offer summary state    *)
(* machine (pkg/hostmgr/summary) and the job runtime updater               *)
(* (pkg/jobmgr/goalstate).  The implementation files of both packages are  *)
(* not part of the source tree at hand; their behaviour is modelled from   *)
(* the specification and pinned by the packages' unit tests, which are.    *)
(***************************************************************************)
EXTENDS Integers, Sequences, FiniteSets, TLC

(***************************************************************************)
(* Bounds of the model.                                                    *)
(***************************************************************************)
MaxTime == 2        \* the clock runs 0..MaxTime
MaxOfferIDs == 2    \* host-offer-ids the id generator hands out in one run
MaxCpu == 2         \* largest cpu demand of a host filter
MaxDeadline == 2    \* the deadlines of the engine queue are 0..MaxDeadline
MaxBatch == 2       \* largest batch_size of a workflow
MaxUnavailable == 2 \* largest maximum_unavailable_instances of a job SLA
MaxTolerable == 2   \* largest max_tolerable_instance_failures of a workflow
MaxCalls == 2       \* the calls each goroutine of the job factory makes

(***************************************************************************)
(* Program constants.                                                      *)
(***************************************************************************)
emptyOfferID == 0       \* the empty host-offer-id
offerHoldTime == 1      \* placing timeout handed to summary.New (clock units)
hostHeldTimeout == 1    \* life time of one held-task entry (clock units)

Hosts == {"h1"}
Tasks == {"t1", "t2"}
UnreservedIDs == {"u1", "u2"}   \* ids of offers without labelled reservation
ReservedIDs == {"r1"}           \* ids of offers with a labelled reservation
Time == 0..MaxTime

ReadyHost == "Ready"
PlacingHost == "Placing"
ReservedHost == "Reserved"
HeldHost == "Held"
HostStatus == {ReadyHost, PlacingHost, ReservedHost, HeldHost}

MATCH == "MATCH"
INSUFFICIENT_OFFER_RESOURCES == "INSUFFICIENT_OFFER_RESOURCES"
MISMATCH_CONSTRAINTS == "MISMATCH_CONSTRAINTS"
SCARCE_RESOURCES == "SCARCE_RESOURCES"
MISMATCH_STATUS == "MISMATCH_STATUS"
NO_OFFER == "NO_OFFER"

EvaluateResults == {"Match", "NotApplicable", "Mismatch", "Error"}

\* The hosts whose agent carries the scarce resource type (GPU).
scarceHosts == {"h1"}

\* Resources one unreserved offer carries: non-revocable cpu, revocable cpu
\* and gpu.  "u1" is the test fixture's offer (cpu 1, revocable cpu 1, gpu 1),
\* "u2" an offer of slack resources only.
OfferRes(o) ==
    IF o = "u1" THEN [cpu |-> 1, revCpu |-> 1, gpu |-> 1]
    ELSE [cpu |-> 0, revCpu |-> 2, gpu |-> 0]

RECURSIVE SumRes(_, _)
SumRes(offers, field) ==
    IF offers = {} THEN 0
    ELSE LET o == CHOOSE x \in offers : TRUE
         IN OfferRes(o)[field] + SumRes(offers \ {o}, field)

\* A host filter: minimum resources, revocable flag, host hint and the
\* outcome of evaluating its scheduling constraint on the host's labels.
Filters ==
    [cpu : 0..MaxCpu, gpu : 0..1, revocable : BOOLEAN,
     hint : SUBSET Hosts, evaluate : EvaluateResults]

VARIABLES
    summaries,      \* hostname -> host summary
    now,            \* the clock
    nextOfferID,    \* state of the host-offer-id generator
    lastCall,       \* the last operation called and what it returned
    matchWindow,    \* hostname -> MATCH results since the last claim or expiry
    placingMatches, \* hostname -> MATCH results since the host last left Placing
    prePlacing      \* hostname -> unreserved offers when the host went Placing

hostVars == <<summaries, now, nextOfferID, lastCall, matchWindow,
              placingMatches, prePlacing>>

VARIABLES
    job,            \* the cached job: its config and its runtime
    taskCache,      \* the task cache of the job: instance -> task state
    run,            \* what the last run of the runtime updater determined
    written         \* what the last run of the runtime updater wrote

updaterVars == <<job, taskCache, run, written>>

VARIABLES
    queue,          \* the deadline queue of the engine: a set of entries
    engineNow,      \* the clock of the engine
    worker,         \* engine worker -> what it does, and for which entity
    entityLock,     \* entity-id -> the per-entity lock is held
    engineCall      \* the last step of the engine

engineVars == <<queue, engineNow, worker, entityLock, engineCall>>

VARIABLES
    activeJobs,     \* the active set of the store: job-ids
    jobStore,       \* job-id -> what the store holds of the job
    visit,          \* job-id -> what recovery did with the job
    failedBatches,  \* the job batches that failed
    recovery        \* where RecoverActiveJobs is, and what it returned

recoveryVars == <<activeJobs, jobStore, visit, failedBatches, recovery>>

VARIABLES
    workflow,       \* the update workflow of a job: its spec and its state
    instState,      \* instance -> where the instance is in the workflow
    wfCall          \* the last step of the workflow

workflowVars == <<workflow, instState, wfCall>>

VARIABLES
    rpcLog,         \* the RPCs sent to the host manager, each with its context
    killCall        \* the last kill or shutdown call and what it returned

killVars == <<rpcLog, killCall>>

VARIABLES
    pool,           \* the offer pool: hostname -> summary
    taskHeldIndex,  \* task -> the host held for it, NoHost when there is none
    poolNow,        \* the clock of the pool
    poolNextID,     \* the next host-offer-id of the pool
    poolCall        \* the last operation of the pool and the holds it let go

poolVars == <<pool, taskHeldIndex, poolNow, poolNextID, poolCall>>

VARIABLES
    cliLog,         \* the client actions run so far: action, RPC outcome, exit code
    tabWriter       \* the text the last client action printed

cliVars == <<cliLog, tabWriter>>

VARIABLES
    reserveCall     \* the last KillAndReserveTasks: its entries and their outcome

reserveVars == <<reserveCall>>

VARIABLES
    fJobs,          \* the jobs of the factory: job id -> job, NoJob when absent
    fReaders,       \* the goroutines that hold the read lock of the factory
    fWriter,        \* the goroutine that holds its write lock
    fPc,            \* goroutine -> where it is in its call
    fArg,           \* goroutine -> the job id of its call
    fCalls,         \* goroutine -> the calls it has started
    fReturned,      \* the pairs of job id and job that AddJob returned
    fNextJob,       \* the next job newJob creates
    fPublished      \* the job ids the publisher counted last

factoryVars == <<fJobs, fReaders, fWriter, fPc, fArg, fCalls, fReturned, fNextJob, fPublished>>

VARIABLES
    trTasks,        \* the tasks of the tracker
    trPlacement,    \* the host SetPlacement placed the task on
    trReaders,      \* the goroutines that hold the read lock of the tracker
    trWriter,       \* the goroutine that holds its write lock
    smReaders,      \* the goroutines that hold the state machine's read lock
    smWriter,       \* the goroutine that holds its write lock
    trPc,           \* goroutine -> where it is
    trCalls,        \* goroutine -> the calls of AddTask, MarkItDone it made
    trInterleaved   \* the rollback read the tracker while GetActiveTasks
                    \* waited for the state machine and SetPlacement queued

trackerVars == <<trTasks, trPlacement, trReaders, trWriter, smReaders, smWriter,
                 trPc, trCalls, trInterleaved>>

(***************************************************************************)
(* hostSummary: the per-host state and its operations.                     *)
(***************************************************************************)
NewSummary ==
    [status |-> ReadyHost,
     unreservedOffers |-> {},
     reservedOffers |-> {},
     hostOfferID |-> emptyOfferID,
     readyCount |-> 0,
     heldTasks |-> <<>>,
     statusPlacingOfferExpiration |-> 0]

HeldSet(s) == DOMAIN s.heldTasks

HasOffer(s) == s.readyCount > 0

HasAnyOffer(s) == s.unreservedOffers # {} \/ s.reservedOffers # {}

\* The status a host falls back to when it leaves Placing.
getResetStatus(s) == IF HeldSet(s) # {} THEN HeldHost ELSE ReadyHost

casStatusKeepID(s, old, new, id, t) ==
    IF s.status # old THEN [err |-> TRUE, s |-> s]
    ELSE [err |-> FALSE,
          s |-> [s EXCEPT !.status = new,
                          !.hostOfferID = IF new = PlacingHost THEN id ELSE @,
                          !.statusPlacingOfferExpiration =
                              IF new = PlacingHost THEN t + offerHoldTime ELSE @,
                          !.readyCount = IF new \in {ReadyHost, HeldHost}
                                         THEN Cardinality(s.unreservedOffers)
                                         ELSE 0]]

\* Compare-and-set of the status with the bookkeeping each status carries.
casStatusLockFree(s, old, new, id, t) ==
    IF s.status # old THEN [err |-> TRUE, s |-> s]
    ELSE [err |-> FALSE,
          s |-> CASE new = ReadyHost ->
                       [s EXCEPT !.status = new,
                                 !.hostOfferID = emptyOfferID,
                                 !.readyCount = Cardinality(s.unreservedOffers)]
                  [] new = HeldHost ->
                       [s EXCEPT !.status = new,
                                 !.hostOfferID = emptyOfferID,
                                 !.readyCount = Cardinality(s.unreservedOffers)]
                  [] new = PlacingHost ->
                       [s EXCEPT !.status = new,
                                 !.hostOfferID = id,
                                 !.statusPlacingOfferExpiration = t + offerHoldTime,
                                 !.readyCount = 0]
                  [] OTHER ->
                       [s EXCEPT !.status = new, !.readyCount = 0]]

AddMesosOffersAlwaysCount(s, unreserved, reserved) ==
    LET u == s.unreservedOffers \cup unreserved
    IN [s EXCEPT !.unreservedOffers = u,
                 !.reservedOffers = s.reservedOffers \cup reserved,
                 !.readyCount = Cardinality(u)]

AddMesosOffers(s, unreserved, reserved) ==
    LET u == s.unreservedOffers \cup unreserved
    IN [s EXCEPT !.unreservedOffers = u,
                 !.reservedOffers = s.reservedOffers \cup reserved,
                 !.readyCount = IF s.status \in {ReadyHost, HeldHost}
                                THEN Cardinality(u) ELSE s.readyCount]

RemoveMesosOfferAlwaysCount(s, o) ==
    IF o \in s.unreservedOffers
    THEN [s EXCEPT !.unreservedOffers = s.unreservedOffers \ {o},
                   !.readyCount = s.readyCount - 1]
    ELSE [s EXCEPT !.reservedOffers = s.reservedOffers \ {o}]

RemoveMesosOffer(s, o) ==
    IF o \in s.unreservedOffers
    THEN [s EXCEPT !.unreservedOffers = s.unreservedOffers \ {o},
                   !.readyCount = IF s.status \in {ReadyHost, HeldHost}
                                  THEN s.readyCount - 1 ELSE s.readyCount]
    ELSE [s EXCEPT !.reservedOffers = s.reservedOffers \ {o}]

matchHostFilterNoScarce(s, h, f) ==
    IF s.unreservedOffers = {} THEN NO_OFFER
    ELSE IF f.evaluate \in {"Mismatch", "Error"} THEN MISMATCH_CONSTRAINTS
    ELSE IF f.revocable /\ SumRes(s.unreservedOffers, "revCpu") < f.cpu
        THEN INSUFFICIENT_OFFER_RESOURCES
    ELSE IF ~f.revocable /\ SumRes(s.unreservedOffers, "cpu") < f.cpu
        THEN INSUFFICIENT_OFFER_RESOURCES
    ELSE IF SumRes(s.unreservedOffers, "gpu") < f.gpu
        THEN INSUFFICIENT_OFFER_RESOURCES
    ELSE MATCH

matchHostFilterPooled(s, h, f) ==
    IF s.unreservedOffers = {} THEN NO_OFFER
    ELSE IF h \in scarceHosts /\ f.gpu = 0 THEN SCARCE_RESOURCES
    ELSE IF f.evaluate \in {"Mismatch", "Error"} THEN MISMATCH_CONSTRAINTS
    ELSE IF SumRes(s.unreservedOffers, "revCpu")
                + SumRes(s.unreservedOffers, "cpu") < f.cpu
        THEN INSUFFICIENT_OFFER_RESOURCES
    ELSE IF SumRes(s.unreservedOffers, "gpu") < f.gpu
        THEN INSUFFICIENT_OFFER_RESOURCES
    ELSE MATCH

\* Rules 3-5 of TryMatch: scarce resources, scheduling constraint, resources.
matchHostFilter(s, h, f) ==
    IF s.unreservedOffers = {} THEN NO_OFFER
    ELSE IF h \in scarceHosts /\ f.gpu = 0 THEN SCARCE_RESOURCES
    ELSE IF f.evaluate \in {"Mismatch", "Error"} THEN MISMATCH_CONSTRAINTS
    ELSE IF f.revocable /\ SumRes(s.unreservedOffers, "revCpu") < f.cpu
        THEN INSUFFICIENT_OFFER_RESOURCES
    ELSE IF ~f.revocable /\ SumRes(s.unreservedOffers, "cpu") < f.cpu
        THEN INSUFFICIENT_OFFER_RESOURCES
    ELSE IF SumRes(s.unreservedOffers, "gpu") < f.gpu
        THEN INSUFFICIENT_OFFER_RESOURCES
    ELSE MATCH

TryMatchAnyStatus(s, h, f, id, t) ==
    LET r == matchHostFilter(s, h, f)
    IN IF r # MATCH THEN [result |-> r, offers |-> {}, s |-> s]
       ELSE [result |-> MATCH,
             offers |-> s.unreservedOffers,
             s |-> casStatusLockFree(s, s.status, PlacingHost, id, t).s]

TryMatchPlacingOnMismatch(s, h, f, id, t) ==
    LET miss(r) == [result |-> r, offers |-> {}, s |-> s]
    IN IF s.status \notin {ReadyHost, HeldHost} THEN miss(MISMATCH_STATUS)
       ELSE IF s.status = HeldHost /\ h \notin f.hint THEN miss(MISMATCH_STATUS)
       ELSE IF ~HasOffer(s) THEN miss(NO_OFFER)
       ELSE LET r == matchHostFilter(s, h, f)
                placing == casStatusLockFree(s, s.status, PlacingHost, id, t).s
            IN IF r # MATCH THEN [result |-> r, offers |-> {}, s |-> placing]
               ELSE [result |-> MATCH,
                     offers |-> s.unreservedOffers,
                     s |-> placing]

TryMatchIgnoringHint(s, h, f, id, t) ==
    LET miss(r) == [result |-> r, offers |-> {}, s |-> s]
    IN IF s.status \notin {ReadyHost, HeldHost} THEN miss(MISMATCH_STATUS)
       ELSE IF ~HasOffer(s) THEN miss(NO_OFFER)
       ELSE LET r == matchHostFilter(s, h, f)
            IN IF r # MATCH THEN miss(r)
               ELSE [result |-> MATCH,
                     offers |-> s.unreservedOffers,
                     s |-> casStatusLockFree(s, s.status, PlacingHost, id, t).s]

\* TryMatch: result, the offers handed out and the summary afterwards.
TryMatch(s, h, f, id, t) ==
    LET miss(r) == [result |-> r, offers |-> {}, s |-> s]
    IN IF s.status \notin {ReadyHost, HeldHost} THEN miss(MISMATCH_STATUS)
       ELSE IF s.status = HeldHost /\ h \notin f.hint THEN miss(MISMATCH_STATUS)
       ELSE IF ~HasOffer(s) THEN miss(NO_OFFER)
       ELSE LET r == matchHostFilter(s, h, f)
            IN IF r # MATCH THEN miss(r)
               ELSE [result |-> MATCH,
                     offers |-> s.unreservedOffers,
                     s |-> casStatusLockFree(s, s.status, PlacingHost, id, t).s]

releaseHoldForTaskLockFree(s, task) ==
    LET held == [x \in HeldSet(s) \ {task} |-> s.heldTasks[x]]
        s1 == [s EXCEPT !.heldTasks = held]
    IN IF task \notin HeldSet(s) THEN s
       ELSE IF DOMAIN held = {} /\ s.status = HeldHost
            THEN casStatusLockFree(s1, HeldHost, ReadyHost, emptyOfferID, 0).s
            ELSE s1

ReleaseHoldForTask(s, task) == releaseHoldForTaskLockFree(s, task)

HoldForTaskFromPlacing(s, task, t) ==
    LET s1 == IF s.status \in {ReadyHost, PlacingHost}
              THEN casStatusLockFree(s, s.status, HeldHost, emptyOfferID, t).s
              ELSE s
    IN IF task \in HeldSet(s) THEN s1
       ELSE [s1 EXCEPT !.heldTasks =
                [x \in HeldSet(s) \cup {task} |->
                    IF x = task THEN t + hostHeldTimeout ELSE s.heldTasks[x]]]

HoldForTask(s, task, t) ==
    LET s1 == IF s.status = ReadyHost
              THEN casStatusLockFree(s, ReadyHost, HeldHost, emptyOfferID, t).s
              ELSE s
    IN IF task \in HeldSet(s) THEN s1
       ELSE [s1 EXCEPT !.heldTasks =
                [x \in HeldSet(s) \cup {task} |->
                    IF x = task THEN t + hostHeldTimeout ELSE s.heldTasks[x]]]

ClaimForLaunchAnyID(s, id, tasks) ==
    IF s.status # PlacingHost
    THEN [err |-> TRUE, offers |-> {}, s |-> s]
    ELSE LET held == [x \in HeldSet(s) \ tasks |-> s.heldTasks[x]]
             s1 == [s EXCEPT !.unreservedOffers = {}, !.heldTasks = held]
             new == IF (tasks \cap HeldSet(s)) # {} /\ DOMAIN held # {}
                    THEN HeldHost ELSE ReadyHost
         IN [err |-> FALSE,
             offers |-> s.unreservedOffers,
             s |-> casStatusLockFree(s1, PlacingHost, new, emptyOfferID, 0).s]

ClaimForLaunchHeldIfAnyRemain(s, id, tasks) ==
    IF s.status # PlacingHost \/ s.hostOfferID # id
    THEN [err |-> TRUE, offers |-> {}, s |-> s]
    ELSE LET held == [x \in HeldSet(s) \ tasks |-> s.heldTasks[x]]
             s1 == [s EXCEPT !.unreservedOffers = {}, !.heldTasks = held]
         IN [err |-> FALSE,
             offers |-> s.unreservedOffers,
             s |-> casStatusLockFree(s1, PlacingHost, getResetStatus(s1),
                                     emptyOfferID, 0).s]

\* ClaimForLaunch: the offers consumed and the summary afterwards.
ClaimForLaunch(s, id, tasks) ==
    IF s.status # PlacingHost \/ s.hostOfferID # id
    THEN [err |-> TRUE, offers |-> {}, s |-> s]
    ELSE LET held == [x \in HeldSet(s) \ tasks |-> s.heldTasks[x]]
             s1 == [s EXCEPT !.unreservedOffers = {}, !.heldTasks = held]
             new == IF (tasks \cap HeldSet(s)) # {} /\ DOMAIN held # {}
                    THEN HeldHost ELSE ReadyHost
         IN [err |-> FALSE,
             offers |-> s.unreservedOffers,
             s |-> casStatusLockFree(s1, PlacingHost, new, emptyOfferID, 0).s]

ClaimReservedOffersForLaunch(s) == [s EXCEPT !.reservedOffers = {}]

ReturnPlacingHostToReady(s) ==
    IF s.status # PlacingHost THEN [err |-> TRUE, s |-> s]
    ELSE casStatusLockFree(s, PlacingHost, ReadyHost, emptyOfferID, 0)

ReturnPlacingHost(s) ==
    IF s.status # PlacingHost THEN [err |-> TRUE, s |-> s]
    ELSE casStatusLockFree(s, PlacingHost, getResetStatus(s), emptyOfferID, 0)

ResetPlacingIgnoringExpiry(s, t) ==
    IF s.status = PlacingHost
    THEN [reset |-> TRUE,
          s |-> casStatusLockFree(s, PlacingHost, getResetStatus(s),
                                  emptyOfferID, 0).s]
    ELSE [reset |-> FALSE, s |-> s]

ResetExpiredPlacingOfferStatusNever(s, t) == [reset |-> FALSE, s |-> s]

ResetExpiredPlacingOfferStatus(s, t) ==
    IF s.status = PlacingHost /\ t > s.statusPlacingOfferExpiration
    THEN [reset |-> TRUE,
          s |-> casStatusLockFree(s, PlacingHost, getResetStatus(s),
                                  emptyOfferID, 0).s]
    ELSE [reset |-> FALSE, s |-> s]

ExpiredTasks(s, t) == {x \in HeldSet(s) : t > s.heldTasks[x]}

ResetExpiredHostHeldStatusAlsoPlacing(s, t) ==
    LET expired == ExpiredTasks(s, t)
        held == [x \in HeldSet(s) \ expired |-> s.heldTasks[x]]
        s1 == [s EXCEPT !.heldTasks = held]
    IN [reset |-> expired # {},
        expired |-> expired,
        s |-> IF s.status \in {HeldHost, PlacingHost} /\ DOMAIN held = {}
              THEN casStatusLockFree(s1, s.status, ReadyHost, emptyOfferID, 0).s
              ELSE s1]

ResetExpiredHostHeldStatus(s, t) ==
    LET expired == ExpiredTasks(s, t)
        held == [x \in HeldSet(s) \ expired |-> s.heldTasks[x]]
        s1 == [s EXCEPT !.heldTasks = held]
    IN [reset |-> expired # {},
        expired |-> expired,
        s |-> IF s.status = HeldHost /\ DOMAIN held = {}
              THEN casStatusLockFree(s1, HeldHost, ReadyHost, emptyOfferID, 0).s
              ELSE s1]

\* The create operation of a persistent volume reserves the host.
ApplyCreateOperation(s) ==
    casStatusLockFree(s, s.status, ReservedHost, emptyOfferID, 0).s

(***************************************************************************)
(* The host summary as a state machine.                                    *)
(***************************************************************************)
Call(op, h, result) == [op |-> op, host |-> h, result |-> result]

Min(a, b) == IF a < b THEN a ELSE b

HostInit ==
    /\ summaries = [h \in Hosts |-> NewSummary]
    /\ now = 0
    /\ nextOfferID = 1
    /\ lastCall = Call("New", "h1", "ok")
    /\ matchWindow = [h \in Hosts |-> 0]
    /\ placingMatches = [h \in Hosts |-> 0]
    /\ prePlacing = [h \in Hosts |-> 0]

\* Bookkeeping of the history variables after host h moved from s to s1.
LeftPlacing(s, s1) == s.status = PlacingHost /\ s1.status # PlacingHost

Track(h, s1, matched, closesWindow) ==
    LET s == summaries[h]
    IN /\ summaries' = [summaries EXCEPT ![h] = s1]
       /\ matchWindow' = [matchWindow EXCEPT ![h] =
              IF closesWindow THEN 0
              ELSE IF matched THEN Min(@ + 1, 2) ELSE @]
       /\ placingMatches' = [placingMatches EXCEPT ![h] =
              IF matched THEN (IF s.status = PlacingHost THEN Min(@ + 1, 2) ELSE 1)
              ELSE IF LeftPlacing(s, s1) THEN 0 ELSE @]
       /\ prePlacing' = [prePlacing EXCEPT ![h] =
              IF matched THEN Cardinality(s.unreservedOffers)
              ELSE IF s.status = PlacingHost THEN @ ELSE 0]

DoAddMesosOffers ==
    \E h \in Hosts, u \in SUBSET UnreservedIDs, r \in SUBSET ReservedIDs :
        /\ u \cup r # {}
        /\ u \cap summaries[h].unreservedOffers = {}
        /\ r \cap summaries[h].reservedOffers = {}
        /\ Track(h, AddMesosOffers(summaries[h], u, r), FALSE, FALSE)
        /\ lastCall' = Call("AddMesosOffers", h, summaries[h].status)
        /\ UNCHANGED <<now, nextOfferID>>

DoRemoveMesosOffer ==
    \E h \in Hosts, o \in UnreservedIDs \cup ReservedIDs :
        /\ Track(h, RemoveMesosOffer(summaries[h], o), FALSE, FALSE)
        /\ lastCall' = Call("RemoveMesosOffer", h,
                IF o \in summaries[h].unreservedOffers \cup summaries[h].reservedOffers
                THEN "removed" ELSE "nil")
        /\ UNCHANGED <<now, nextOfferID>>

DoTryMatch ==
    \E h \in Hosts :
        \E m \in {TryMatch(summaries[h], h, f, nextOfferID, now) : f \in Filters} :
           /\ nextOfferID <= MaxOfferIDs
           /\ Track(h, m.s, m.result = MATCH, FALSE)
           /\ lastCall' = Call("TryMatch", h, m.result)
           /\ nextOfferID' = IF m.result = MATCH THEN nextOfferID + 1 ELSE nextOfferID
           /\ UNCHANGED now

DoClaimForLaunch ==
    \E h \in Hosts :
        \E c \in {ClaimForLaunch(summaries[h], id, tasks) :
                      id \in 0..MaxOfferIDs, tasks \in SUBSET Tasks} :
           /\ Track(h, c.s, FALSE, ~c.err)
           /\ lastCall' = Call("ClaimForLaunch", h, IF c.err THEN "error" ELSE "ok")
           /\ UNCHANGED <<now, nextOfferID>>

DoClaimReservedOffersForLaunch ==
    \E h \in Hosts :
        /\ summaries[h].reservedOffers # {}
        /\ Track(h, ClaimReservedOffersForLaunch(summaries[h]), FALSE, FALSE)
        /\ lastCall' = Call("ClaimReservedOffersForLaunch", h, "ok")
        /\ UNCHANGED <<now, nextOfferID>>

DoReturnPlacingHost ==
    \E h \in Hosts :
        LET r == ReturnPlacingHost(summaries[h])
        IN /\ Track(h, r.s, FALSE, FALSE)
           /\ lastCall' = Call("ReturnPlacingHost", h, IF r.err THEN "error" ELSE "ok")
           /\ UNCHANGED <<now, nextOfferID>>

DoHoldForTask ==
    \E h \in Hosts, task \in Tasks :
        /\ Track(h, HoldForTask(summaries[h], task, now), FALSE, FALSE)
        /\ lastCall' = Call("HoldForTask", h, "ok")
        /\ UNCHANGED <<now, nextOfferID>>

DoReleaseHoldForTask ==
    \E h \in Hosts, task \in Tasks :
        /\ Track(h, ReleaseHoldForTask(summaries[h], task), FALSE, FALSE)
        /\ lastCall' = Call("ReleaseHoldForTask", h, "ok")
        /\ UNCHANGED <<now, nextOfferID>>

DoResetExpiredPlacingOfferStatus ==
    \E h \in Hosts :
        LET r == ResetExpiredPlacingOfferStatus(summaries[h], now)
        IN /\ Track(h, r.s, FALSE, r.reset)
           /\ lastCall' = Call("ResetExpiredPlacingOfferStatus", h,
                               IF r.reset THEN "reset" ELSE "noreset")
           /\ UNCHANGED <<now, nextOfferID>>

DoResetExpiredHostHeldStatus ==
    \E h \in Hosts :
        LET r == ResetExpiredHostHeldStatus(summaries[h], now)
        IN /\ Track(h, r.s, FALSE, FALSE)
           /\ lastCall' = Call("ResetExpiredHostHeldStatus", h,
                               IF r.reset THEN "reset" ELSE "noreset")
           /\ UNCHANGED <<now, nextOfferID>>

DoApplyCreateOperation ==
    \E h \in Hosts :
        /\ summaries[h].reservedOffers # {}
        /\ Track(h, ApplyCreateOperation(summaries[h]), FALSE, FALSE)
        /\ lastCall' = Call("ApplyCreateOperation", h, "ok")
        /\ UNCHANGED <<now, nextOfferID>>

Tick ==
    /\ now < MaxTime
    /\ now' = now + 1
    /\ UNCHANGED <<summaries, nextOfferID, lastCall, matchWindow,
                   placingMatches, prePlacing>>

HostNext ==
    \/ DoAddMesosOffers
    \/ DoRemoveMesosOffer
    \/ DoTryMatch
    \/ DoClaimForLaunch
    \/ DoClaimReservedOffersForLaunch
    \/ DoReturnPlacingHost
    \/ DoHoldForTask
    \/ DoReleaseHoldForTask
    \/ DoResetExpiredPlacingOfferStatus
    \/ DoResetExpiredHostHeldStatus
    \/ DoApplyCreateOperation
    \/ Tick


(***************************************************************************)
(* The job runtime updater.                                                *)
(***************************************************************************)
Instances == {0, 1}
InstanceCounts == {2}

TaskStates == {"INITIALIZED", "PENDING", "RUNNING", "KILLING",
               "SUCCEEDED", "FAILED", "LOST", "KILLED"}
TerminalTaskStates == {"SUCCEEDED", "FAILED", "LOST", "KILLED"}
JobStates == {"INITIALIZED", "PENDING", "RUNNING", "KILLING",
              "SUCCEEDED", "FAILED", "KILLED"}
TerminalJobStates == {"SUCCEEDED", "FAILED", "KILLED"}
GoalStates == {"SUCCEEDED", "RUNNING", "KILLED", "DELETED"}

getTotalInstanceCount(stateCounts) ==
    stateCounts["INITIALIZED"] + stateCounts["PENDING"] + stateCounts["RUNNING"]
    + stateCounts["KILLING"] + stateCounts["SUCCEEDED"] + stateCounts["FAILED"]
    + stateCounts["LOST"] + stateCounts["KILLED"]

\* The counts of the cached tasks.
CacheCounts(t) ==
    [st \in TaskStates |-> Cardinality({i \in Instances : t[i] = st})]

\* The answers GetTaskStateSummaryForJob can give: the materialized view
\* agrees with the tasks, or it has diverged by one row -- a row too many,
\* a row missing, or a row still in an earlier state.
StateSummaries(t) ==
    LET c == CacheCounts(t)
        present == {st \in TaskStates : c[st] > 0}
    IN {c}
       \cup {[c EXCEPT ![a] = @ + 1] : a \in TaskStates}
       \cup {[c EXCEPT ![a] = @ - 1] : a \in present}
       \cup {[c EXCEPT ![a[1]] = @ - 1, ![a[2]] = @ + 1] :
                 a \in {x \in present \X TaskStates : x[1] # x[2]}}

partiallyCreatedAsFullJob(j, stateCounts) ==
    IF stateCounts["RUNNING"] > 0 THEN "RUNNING"
    ELSE IF stateCounts["KILLED"] > 0 THEN "KILLED"
    ELSE IF stateCounts["FAILED"] > 0 \/ stateCounts["LOST"] > 0 THEN "FAILED"
    ELSE IF stateCounts["SUCCEEDED"] > 0 THEN "SUCCEEDED"
    ELSE "PENDING"

partiallyCreatedKeepsState(j, stateCounts) ==
    IF j.type = "BATCH" THEN "INITIALIZED" ELSE j.state

\* State of a job whose task counts sum to less than its instance count.
partiallyCreatedJobState(j, stateCounts) ==
    IF j.type = "BATCH" THEN "INITIALIZED"
    ELSE IF j.goalState \in {"KILLED", "DELETED"}
    THEN IF stateCounts["KILLED"] > 0 THEN "KILLED"
         ELSE IF getTotalInstanceCount(stateCounts) > 0 THEN "FAILED"
         ELSE j.state
    ELSE j.state

jobStateFailedFirst(j, stateCounts) ==
    IF getTotalInstanceCount(stateCounts) > j.instanceCount THEN "PENDING"
    ELSE IF stateCounts["RUNNING"] > 0 THEN "RUNNING"
    ELSE IF stateCounts["PENDING"] > 0 \/ stateCounts["INITIALIZED"] > 0
        THEN "PENDING"
    ELSE IF stateCounts["KILLING"] > 0 THEN "KILLING"
    ELSE IF stateCounts["FAILED"] > 0 \/ stateCounts["LOST"] > 0 THEN "FAILED"
    ELSE IF stateCounts["KILLED"] > 0 THEN "KILLED"
    ELSE "SUCCEEDED"

\* State of a fully created job from its task counts alone.
jobStateFromCounts(j, stateCounts) ==
    IF getTotalInstanceCount(stateCounts) > j.instanceCount THEN "PENDING"
    ELSE IF stateCounts["RUNNING"] > 0 THEN "RUNNING"
    ELSE IF stateCounts["PENDING"] > 0 \/ stateCounts["INITIALIZED"] > 0
        THEN "PENDING"
    ELSE IF stateCounts["KILLING"] > 0 THEN "KILLING"
    ELSE IF stateCounts["KILLED"] > 0 THEN "KILLED"
    ELSE IF stateCounts["FAILED"] > 0 \/ stateCounts["LOST"] > 0 THEN "FAILED"
    ELSE "SUCCEEDED"

controllerTaskFirst(j, stateCounts, t) ==
    IF t[0] = "NONE" THEN [err |-> TRUE, state |-> j.state]
    ELSE IF t[0] = "SUCCEEDED" THEN [err |-> FALSE, state |-> "SUCCEEDED"]
    ELSE IF t[0] \in {"FAILED", "LOST"} THEN [err |-> FALSE, state |-> "FAILED"]
    ELSE [err |-> FALSE, state |-> jobStateFromCounts(j, stateCounts)]

controllerTaskIgnored(j, stateCounts, t) ==
    [err |-> FALSE, state |-> jobStateFromCounts(j, stateCounts)]

\* State of a job with a controller task: once all tasks are terminal the
\* outcome of instance 0 decides.
controllerTaskJobState(j, stateCounts, t) ==
    LET base == jobStateFromCounts(j, stateCounts)
    IN IF base \notin TerminalJobStates THEN [err |-> FALSE, state |-> base]
       ELSE IF t[0] = "NONE" THEN [err |-> TRUE, state |-> j.state]
       ELSE IF t[0] = "SUCCEEDED" THEN [err |-> FALSE, state |-> "SUCCEEDED"]
       ELSE IF t[0] \in {"FAILED", "LOST"} THEN [err |-> FALSE, state |-> "FAILED"]
       ELSE [err |-> FALSE, state |-> base]

\* The determiner the factory picks, applied.
getState(j, stateCounts, t) ==
    IF getTotalInstanceCount(stateCounts) < j.instanceCount
    THEN [err |-> FALSE, state |-> partiallyCreatedJobState(j, stateCounts)]
    ELSE IF j.hasControllerTask THEN controllerTaskJobState(j, stateCounts, t)
    ELSE [err |-> FALSE, state |-> jobStateFromCounts(j, stateCounts)]

shouldRecalculateServiceOnly(jobType, jobState, flag, stale) ==
    jobType = "SERVICE"

shouldRecalculateJobStateFromCache(jobType, jobState, flag, stale) ==
    IF jobType = "SERVICE" THEN TRUE
    ELSE IF jobState \in TerminalJobStates THEN FALSE
    ELSE IF stale THEN TRUE
    ELSE flag

\* The new job state and the task counts to report, from the counts of the
\* materialized view (mv), the task cache (t), the recalculate-from-cache
\* flag, whether the last task update is older than the staleness threshold
\* (stale) and whether the cache reports a task in UNKNOWN state (unknown).
determineJobRuntimeStateAndCounts(j, mv, t, flag, stale, unknown) ==
    LET first == getState(j, mv, t)
        fromCache == CacheCounts(t)
        second == getState(j, fromCache, t)
    IN IF first.err
       THEN [err |-> TRUE, state |-> j.state, counts |-> mv, source |-> "mv"]
       ELSE IF ~shouldRecalculateJobStateFromCache(j.type, first.state, flag, stale)
       THEN [err |-> FALSE, state |-> first.state, counts |-> mv, source |-> "mv"]
       ELSE IF unknown
       THEN [err |-> FALSE, state |-> first.state, counts |-> mv, source |-> "mv"]
       ELSE [err |-> second.err,
             state |-> IF second.err THEN j.state ELSE second.state,
             counts |-> fromCache,
             source |-> "cache"]

Cmp(a, b) == IF a < b THEN "lt" ELSE IF a = b THEN "eq" ELSE "gt"

\* What one run of the updater determined: its result, where the counts
\* came from and the sum of the view against instance_count.
Outcome(result, source, mv) ==
    [result |-> result, source |-> source, mv |-> mv]

NoRun == Outcome("none", "mv", "eq")

\* What one run of the updater wrote: its result, the update request of its
\* write, whether the state it wrote differs from the state the job had,
\* the completion time of the runtime it wrote and the number of times it
\* enqueued the job.
Written(result, write, stateChanged, completionTime, enqueues) ==
    [result |-> result, write |-> write, stateChanged |-> stateChanged,
     completionTime |-> completionTime, enqueues |-> enqueues]

NothingWritten == Written("none", "none", FALSE, "", 0)

IdleJob ==
    [type |-> "BATCH", instanceCount |-> 1, hasControllerTask |-> FALSE,
     goalState |-> "SUCCEEDED", state |-> "INITIALIZED"]

UpdaterIdle ==
    /\ job = IdleJob
    /\ taskCache = [i \in Instances |-> "NONE"]
    /\ run = NoRun
    /\ written = NothingWritten

\* A job right after its creation: configured, no task yet.
UpdaterInit ==
    /\ job \in {j \in [type : {"BATCH", "SERVICE"},
                      instanceCount : InstanceCounts,
                      hasControllerTask : BOOLEAN,
                      goalState : GoalStates,
                      state : {"INITIALIZED"}] :
                  /\ j.type = "SERVICE" => ~j.hasControllerTask
                  /\ j.type = "SERVICE" => j.goalState = "RUNNING"
                  /\ j.type = "BATCH" => j.goalState = "SUCCEEDED"}
    /\ taskCache = [i \in Instances |-> "NONE"]
    /\ run = NoRun
    /\ written = NothingWritten

\* A task is created in the cache.
AddTask ==
    \E i \in Instances :
        /\ taskCache[i] = "NONE"
        /\ taskCache' = [taskCache EXCEPT ![i] = "INITIALIZED"]
        /\ UNCHANGED <<job, run, written>>

\* A status update moves a cached task to another state.
TaskStatusUpdate ==
    \E i \in Instances, st \in TaskStates :
        /\ taskCache[i] \notin {"NONE", st}
        /\ taskCache' = [taskCache EXCEPT ![i] = st]
        /\ UNCHANGED <<job, run, written>>

\* The goal state of the job is set: a kill, or the delete of a service job.
SetGoalState ==
    \E g \in {"KILLED", "DELETED"} :
        /\ g = "DELETED" => job.type = "SERVICE"
        /\ job.goalState # g
        /\ job' = [job EXCEPT !.goalState = g]
        /\ UNCHANGED <<taskCache, run, written>>

\* The job has fewer tasks in the cache than its configuration asks for.
IsPartiallyCreated(j, t) ==
    Cardinality({i \in Instances : t[i] # "NONE"}) < j.instanceCount

completionTimeFromLastUpdate(jobState, lastZero) ==
    IF jobState \notin TerminalJobStates \/ lastZero THEN "" ELSE "last"

\* The completion time of the runtime to write: the last task update time
\* for a terminal state, the current time if no task ever was updated, and
\* empty for a state that is not terminal.
completionTimeOf(jobState, lastZero) ==
    IF jobState \notin TerminalJobStates THEN ""
    ELSE IF lastZero THEN "now"
    ELSE "last"

shouldEnqueuePartiallyCreated(j, jobState, t) ==
    IsPartiallyCreated(j, t)

\* The job is enqueued again when its new state is terminal or when it is
\* partially created.
shouldEnqueue(j, jobState, t) ==
    jobState \in TerminalJobStates \/ IsPartiallyCreated(j, t)

\* The first half of a run on the answer mv of the materialized view: a
\* KILLED job with goal KILLED and no task is left alone (skip); otherwise
\* the state and counts are determined.
determineRun(j, mv, t, flag, stale, unknown) ==
    LET total == getTotalInstanceCount(mv)
    IN [skip |-> total = 0 /\ j.state = "KILLED" /\ j.goalState = "KILLED",
        mv |-> Cmp(total, j.instanceCount),
        r |-> determineJobRuntimeStateAndCounts(j, mv, t, flag, stale, unknown)]

RunWritingChangedStateOnly(j, d, t, statsDiffer, dbErr, lastZero) ==
    LET enqueues == IF shouldEnqueue(j, d.r.state, t) THEN 1 ELSE 0
    IN IF d.skip
       THEN [run |-> Outcome("skip", "mv", "lt"),
             written |-> Written("skip", "none", FALSE, "", 0), job |-> j]
       ELSE IF d.r.err
       THEN [run |-> Outcome("error", d.r.source, d.mv),
             written |-> Written("error", "none", FALSE, "", 0), job |-> j]
       ELSE IF d.r.state = j.state
       THEN [run |-> Outcome("ok", d.r.source, d.mv),
             written |-> Written("ok", "CacheOnly", FALSE, "", enqueues),
             job |-> j]
       ELSE IF dbErr
       THEN [run |-> Outcome("error", d.r.source, d.mv),
             written |-> Written("error", "none", FALSE, "", 0), job |-> j]
       ELSE [run |-> Outcome("ok", d.r.source, d.mv),
             written |-> Written("ok", "CacheAndDB", TRUE,
                                 completionTimeOf(d.r.state, lastZero),
                                 enqueues),
             job |-> [j EXCEPT !.state = d.r.state]]

\* One run of the updater, from what its first half d determined: what it
\* did and the job it leaves.  The runtime is written to cache and DB when
\* the state changed or the task stats of the runtime differ from the counts
\* (statsDiffer; they do when the runtime has none); dbErr: the write fails;
\* lastZero: no task was ever updated.  Then the job is enqueued.
RunJobRuntimeUpdater(j, d, t, statsDiffer, dbErr, lastZero) ==
    LET enqueues == IF shouldEnqueue(j, d.r.state, t) THEN 1 ELSE 0
    IN IF d.skip
       THEN [run |-> Outcome("skip", "mv", "lt"),
             written |-> Written("skip", "none", FALSE, "", 0), job |-> j]
       ELSE IF d.r.err
       THEN [run |-> Outcome("error", d.r.source, d.mv),
             written |-> Written("error", "none", FALSE, "", 0), job |-> j]
       ELSE IF d.r.state = j.state /\ ~statsDiffer
       THEN [run |-> Outcome("ok", d.r.source, d.mv),
             written |-> Written("ok", "CacheOnly", FALSE, "", enqueues), job |-> j]
       ELSE IF dbErr
       THEN [run |-> Outcome("error", d.r.source, d.mv),
             written |-> Written("error", "none", FALSE, "", 0), job |-> j]
       ELSE [run |-> Outcome("ok", d.r.source, d.mv),
             written |-> Written("ok", "CacheAndDB", d.r.state # j.state,
                                 completionTimeOf(d.r.state, lastZero),
                                 enqueues),
             job |-> [j EXCEPT !.state = d.r.state]]

\* What the first half of a run can determine in the current state.
Determinations ==
    {determineRun(job, mv, taskCache, flag, stale, unknown) :
         mv \in StateSummaries(taskCache), flag \in BOOLEAN,
         stale \in BOOLEAN, unknown \in BOOLEAN}

\* What a run of the updater can do in the current state.
Runs ==
    {RunJobRuntimeUpdater(job, d, taskCache, statsDiffer, dbErr, lastZero) :
         d \in Determinations, statsDiffer \in BOOLEAN,
         dbErr \in BOOLEAN, lastZero \in BOOLEAN}

\* A run of the updater, observed for what it determined.
JobRuntimeUpdater ==
    \E o \in {[run |-> x.run, job |-> x.job] : x \in Runs} :
        /\ run' = o.run
        /\ job' = o.job
        /\ UNCHANGED <<taskCache, written>>

\* A run of the updater, observed for what it wrote.
JobRuntimeUpdaterWrite ==
    \E o \in {[written |-> x.written, job |-> x.job] : x \in Runs} :
        /\ written' = o.written
        /\ job' = o.job
        /\ UNCHANGED <<taskCache, run>>

UpdaterNext ==
    \/ AddTask
    \/ TaskStatusUpdate
    \/ SetGoalState
    \/ JobRuntimeUpdater

WriterNext ==
    \/ AddTask
    \/ TaskStatusUpdate
    \/ SetGoalState
    \/ JobRuntimeUpdaterWrite

(***************************************************************************)
(* The goal-state engine: a deadline queue of entities and workers that    *)
(* run the entities' actions, one at a time per entity.                    *)
(***************************************************************************)
Entities == {"job1", "job2"}
Workers == {"w1", "w2", "w3"}
Deadlines == 0..MaxDeadline

MinOf(S) == CHOOSE x \in S : \A y \in S : x <= y

\* The entries of entity e in queue q.
EntriesOf(q, e) == {x \in q : x.entity = e}

EnqueueAppend(q, e, deadline) ==
    q \cup {[entity |-> e, deadline |-> deadline]}

\* Enqueue(entity, deadline): an entity that is queued already keeps one
\* entry, with the earlier of the two deadlines.
Enqueue(q, e, deadline) ==
    LET existing == EntriesOf(q, e)
    IN IF existing = {}
       THEN q \cup {[entity |-> e, deadline |-> deadline]}
       ELSE (q \ existing)
            \cup {[entity |-> e,
                   deadline |-> Min(deadline,
                                    MinOf({x.deadline : x \in existing}))]}

entityFreeAlways(lock, e) == TRUE

\* The per-entity lock of e can be taken.
entityFree(lock, e) == ~lock[e]

Idle == [state |-> "idle", entity |-> "none"]

EngineCall(op, e, deadline) == [op |-> op, entity |-> e, deadline |-> deadline]

EngineInit ==
    /\ queue = {}
    /\ engineNow = 0
    /\ worker = [w \in Workers |-> Idle]
    /\ entityLock = [e \in Entities |-> FALSE]
    /\ engineCall = EngineCall("Start", "none", 0)

\* A producer enqueues an entity.
DoEnqueue ==
    \E e \in Entities, deadline \in Deadlines :
        /\ deadline >= engineNow
        /\ queue' = Enqueue(queue, e, deadline)
        /\ engineCall' = EngineCall("Enqueue", e, deadline)
        /\ UNCHANGED <<engineNow, worker, entityLock>>

\* An idle worker takes a due entry off the queue.
Dequeue ==
    \E w \in Workers, x \in queue :
        /\ worker[w].state = "idle"
        /\ x.deadline <= engineNow
        /\ queue' = queue \ {x}
        /\ worker' = [worker EXCEPT ![w] = [state |-> "waiting",
                                            entity |-> x.entity]]
        /\ engineCall' = EngineCall("Dequeue", x.entity, x.deadline)
        /\ UNCHANGED <<engineNow, entityLock>>

\* The worker takes the lock of its entity and starts the entity's action.
RunAction ==
    \E w \in Workers :
        /\ worker[w].state = "waiting"
        /\ entityFree(entityLock, worker[w].entity)
        /\ entityLock' = [entityLock EXCEPT ![worker[w].entity] = TRUE]
        /\ worker' = [worker EXCEPT ![w].state = "running"]
        /\ engineCall' = EngineCall("Run", worker[w].entity, engineNow)
        /\ UNCHANGED <<queue, engineNow>>

\* The action returns: the lock is released and the entity is enqueued
\* again after a delay, unless the action removed it.
FinishAction ==
    \E w \in Workers, removed \in BOOLEAN, delay \in Deadlines :
        /\ worker[w].state = "running"
        /\ engineNow + delay <= MaxDeadline
        /\ removed => delay = 0
        /\ queue' = IF removed THEN queue
                    ELSE Enqueue(queue, worker[w].entity, engineNow + delay)
        /\ entityLock' = [entityLock EXCEPT ![worker[w].entity] = FALSE]
        /\ worker' = [worker EXCEPT ![w] = Idle]
        /\ engineCall' = EngineCall(IF removed THEN "Remove" ELSE "Reschedule",
                                    worker[w].entity, engineNow + delay)
        /\ UNCHANGED engineNow

EngineTick ==
    /\ engineNow < MaxDeadline
    /\ engineNow' = engineNow + 1
    /\ engineCall' = EngineCall("Tick", "none", engineNow + 1)
    /\ UNCHANGED <<queue, worker, entityLock>>

EngineNext ==
    \/ DoEnqueue
    \/ Dequeue
    \/ RunAction
    \/ FinishAction
    \/ EngineTick

(***************************************************************************)
(* Recovery of the active jobs on start: the active set is listed, split   *)
(* into batches, and every job of a batch is fetched and then deleted from *)
(* the active set, skipped or handed to the recovery of its tasks.         *)
(***************************************************************************)
RecoveryJobs == {"j1", "j2", "j3"}
JobBatches == {{"j1", "j2"}, {"j3"}}
MaxRetries == 1

StoredJob(runtime, config, terminal, type) ==
    [runtime |-> runtime, config |-> config, terminal |-> terminal,
     type |-> type]

\* What the store holds of a job of the active set.
StoredJobs ==
    {StoredJob("missing", "present", FALSE, "BATCH"),
     StoredJob("present", "missing", FALSE, "BATCH")}
    \cup {StoredJob("present", "present", terminal, type) :
              terminal \in BOOLEAN, type \in {"BATCH", "SERVICE"}}

Visit(fetched, deleteCalled, recovered) ==
    [fetched |-> fetched, deleteCalled |-> deleteCalled,
     recovered |-> recovered]

NotVisited == Visit("none", FALSE, "none")

JobOutcome(v, deleted, batchFails) ==
    [visit |-> v, deleted |-> deleted, batchFails |-> batchFails]

recoverJobDeletingTerminal(s, rtErr, cfgErr, cfgPropagates, deleteOk, failures) ==
    IF rtErr THEN
        JobOutcome(Visit("runtimeError", FALSE, "none"), FALSE, FALSE)
    ELSE IF s.runtime = "missing" THEN
        JobOutcome(Visit("runtimeNotFound", TRUE, "none"), deleteOk, FALSE)
    ELSE IF cfgErr THEN
        JobOutcome(Visit("configError", FALSE, "none"), FALSE, cfgPropagates)
    ELSE IF s.config = "missing" THEN
        JobOutcome(Visit("configNotFound", TRUE, "none"), deleteOk, FALSE)
    ELSE IF s.terminal THEN
        JobOutcome(Visit("ok", TRUE, "none"), deleteOk, FALSE)
    ELSE IF failures > MaxRetries THEN
        JobOutcome(Visit("ok", FALSE, "failed"), FALSE, TRUE)
    ELSE JobOutcome(Visit("ok", FALSE, "ok"), FALSE, FALSE)

recoverJobPropagating(s, rtErr, cfgErr, cfgPropagates, deleteOk, failures) ==
    IF rtErr THEN
        JobOutcome(Visit("runtimeError", FALSE, "none"), FALSE, TRUE)
    ELSE IF s.runtime = "missing" THEN
        JobOutcome(Visit("runtimeNotFound", TRUE, "none"), deleteOk, FALSE)
    ELSE IF cfgErr THEN
        JobOutcome(Visit("configError", FALSE, "none"), FALSE, cfgPropagates)
    ELSE IF s.config = "missing" THEN
        JobOutcome(Visit("configNotFound", TRUE, "none"), deleteOk, FALSE)
    ELSE IF s.terminal /\ s.type = "BATCH" THEN
        JobOutcome(Visit("ok", TRUE, "none"), deleteOk, FALSE)
    ELSE IF failures > MaxRetries THEN
        JobOutcome(Visit("ok", FALSE, "failed"), FALSE, TRUE)
    ELSE JobOutcome(Visit("ok", FALSE, "ok"), FALSE, FALSE)

recoverJobFailingOnDelete(s, rtErr, cfgErr, cfgPropagates, deleteOk, failures) ==
    IF rtErr THEN
        JobOutcome(Visit("runtimeError", FALSE, "none"), FALSE, FALSE)
    ELSE IF s.runtime = "missing" THEN
        JobOutcome(Visit("runtimeNotFound", TRUE, "none"), deleteOk, ~deleteOk)
    ELSE IF cfgErr THEN
        JobOutcome(Visit("configError", FALSE, "none"), FALSE, cfgPropagates)
    ELSE IF s.config = "missing" THEN
        JobOutcome(Visit("configNotFound", TRUE, "none"), deleteOk, ~deleteOk)
    ELSE IF s.terminal /\ s.type = "BATCH" THEN
        JobOutcome(Visit("ok", TRUE, "none"), deleteOk, ~deleteOk)
    ELSE IF failures > MaxRetries THEN
        JobOutcome(Visit("ok", FALSE, "failed"), FALSE, TRUE)
    ELSE JobOutcome(Visit("ok", FALSE, "ok"), FALSE, FALSE)

\* One job of a batch: s is what the store holds of it, rtErr and cfgErr
\* say that the fetch of the runtime, of the config, fails with a store
\* error other than not-found, deleteOk that a deletion from the active set
\* succeeds, failures how often the recovery of the job's tasks fails in a
\* row.  What becomes of a failed fetch of the config is left open
\* (cfgPropagates): no test decides it.
recoverJob(s, rtErr, cfgErr, cfgPropagates, deleteOk, failures) ==
    IF rtErr THEN
        JobOutcome(Visit("runtimeError", FALSE, "none"), FALSE, FALSE)
    ELSE IF s.runtime = "missing" THEN
        JobOutcome(Visit("runtimeNotFound", TRUE, "none"), deleteOk, FALSE)
    ELSE IF cfgErr THEN
        JobOutcome(Visit("configError", FALSE, "none"), FALSE, cfgPropagates)
    ELSE IF s.config = "missing" THEN
        JobOutcome(Visit("configNotFound", TRUE, "none"), deleteOk, FALSE)
    ELSE IF s.terminal /\ s.type = "BATCH" THEN
        JobOutcome(Visit("ok", TRUE, "none"), deleteOk, FALSE)
    ELSE IF failures > MaxRetries THEN
        JobOutcome(Visit("ok", FALSE, "failed"), FALSE, TRUE)
    ELSE JobOutcome(Visit("ok", FALSE, "ok"), FALSE, FALSE)

Recovery(phase, result) == [phase |-> phase, result |-> result]

RecoveryIdle ==
    /\ activeJobs = RecoveryJobs
    /\ jobStore = [j \in RecoveryJobs |-> StoredJob("present", "present",
                                                   FALSE, "BATCH")]
    /\ visit = [j \in RecoveryJobs |-> NotVisited]
    /\ failedBatches = {}
    /\ recovery = Recovery("idle", "none")

RecoveryInit ==
    /\ activeJobs = RecoveryJobs
    /\ jobStore \in [RecoveryJobs -> StoredJobs]
    /\ visit = [j \in RecoveryJobs |-> NotVisited]
    /\ failedBatches = {}
    /\ recovery = Recovery("idle", "none")

\* RecoverActiveJobs lists the active jobs; a failure of the listing is
\* returned at once.
GetActiveJobs ==
    /\ recovery.phase = "idle"
    /\ \E listOk \in BOOLEAN :
           recovery' = IF listOk THEN Recovery("running", "none")
                       ELSE Recovery("done", "listError")
    /\ UNCHANGED <<activeJobs, jobStore, visit, failedBatches>>

\* A batch recovers its next job; a batch that failed stops.
RecoverJob ==
    /\ recovery.phase = "running"
    /\ \E batch \in JobBatches \ failedBatches, j \in RecoveryJobs :
        /\ j \in batch
        /\ visit[j] = NotVisited
        /\ \E rtErr, cfgErr, cfgPropagates, deleteOk \in BOOLEAN,
              failures \in 0..(MaxRetries + 1) :
              LET o == recoverJob(jobStore[j], rtErr, cfgErr, cfgPropagates,
                                  deleteOk, failures)
              IN /\ visit' = [visit EXCEPT ![j] = o.visit]
                 /\ activeJobs' = IF o.deleted THEN activeJobs \ {j}
                                  ELSE activeJobs
                 /\ failedBatches' = IF o.batchFails
                                     THEN failedBatches \cup {batch}
                                     ELSE failedBatches
    /\ UNCHANGED <<jobStore, recovery>>

BatchDone(batch) ==
    batch \in failedBatches \/ \A j \in batch : visit[j] # NotVisited

\* All batches are through: RecoverActiveJobs returns.
FinishRecovery ==
    /\ recovery.phase = "running"
    /\ \A batch \in JobBatches : BatchDone(batch)
    /\ recovery' = Recovery("done", IF failedBatches = {} THEN "ok"
                                    ELSE "batchError")
    /\ UNCHANGED <<activeJobs, jobStore, visit, failedBatches>>

RecoveryNext ==
    \/ GetActiveJobs
    \/ RecoverJob
    \/ FinishRecovery

(***************************************************************************)
(* The rolling-workflow controller: an update of a stateless job moves its *)
(* instances from the previous to the target version batch by batch, and   *)
(* back again on a rollback.                                               *)
(***************************************************************************)
WfInstances == 0..2

\* An instance runs the previous or the target version, is on its way to
\* one of them (the operation is issued, no terminal state yet), or failed
\* on its way.
InstanceStates ==
    {"prev", "toTarget", "target", "failedTarget", "toPrev", "failedPrev"}

WorkflowStates ==
    {"INITIALIZED", "ROLLING_FORWARD", "PAUSED", "ROLLING_BACKWARD",
     "SUCCEEDED", "ROLLED_BACK", "FAILED", "ABORTED"}

TerminalWorkflowStates == {"SUCCEEDED", "ROLLED_BACK", "FAILED", "ABORTED"}

\* currently_in_flight: the operation is issued, the instance is not yet
\* at a terminal transitioned state.
InFlight(inst) == {i \in WfInstances : inst[i] \in {"toTarget", "toPrev"}}

Unavailable(inst) ==
    {i \in WfInstances :
        inst[i] \in {"toTarget", "toPrev", "failedTarget", "failedPrev"}}

\* The instances the workflow has not yet issued an operation for.
ToIssue(state, inst) ==
    IF state = "ROLLING_FORWARD"
    THEN {i \in WfInstances : inst[i] = "prev"}
    ELSE IF state = "ROLLING_BACKWARD"
    THEN {i \in WfInstances : inst[i] \in {"target", "failedTarget"}}
    ELSE {}

Completed(state, inst) ==
    IF state = "ROLLING_BACKWARD"
    THEN {i \in WfInstances : inst[i] = "prev"}
    ELSE {i \in WfInstances : inst[i] = "target"}

Failed(state, inst) ==
    IF state = "ROLLING_BACKWARD"
    THEN {i \in WfInstances : inst[i] = "failedPrev"}
    ELSE {i \in WfInstances : inst[i] = "failedTarget"}

\* remaining of the workflow status: neither completed nor failed.
Remaining(state, inst) ==
    WfInstances \ (Completed(state, inst) \cup Failed(state, inst))

\* The k lowest instances of S.
RECURSIVE Lowest(_, _)
Lowest(S, k) ==
    IF k = 0 \/ S = {} THEN {}
    ELSE LET m == MinOf(S) IN {m} \cup Lowest(S \ {m}, k - 1)

Issue(state, inst, picked) ==
    [i \in WfInstances |->
        IF i \in picked
        THEN (IF state = "ROLLING_FORWARD" THEN "toTarget" ELSE "toPrev")
        ELSE inst[i]]

pickIgnoringInFlight(w, inst) ==
    Lowest(ToIssue(w.state, inst), w.batchSize)

pickIgnoringUnavailable(w, inst) ==
    Lowest(ToIssue(w.state, inst),
           w.batchSize - Cardinality(InFlight(inst)))

\* Step 2 of the tick: the instances to issue operations for, lowest index
\* first, as many as the batch size leaves room for next to those in
\* flight and as the unavailable instances of the SLA leave room for.
pick(w, inst) ==
    LET room == w.batchSize - Cardinality(InFlight(inst))
        fits(k) ==
            Cardinality(Unavailable(Issue(w.state, inst,
                            Lowest(ToIssue(w.state, inst), k))))
                <= w.maxUnavailable
        ks == {k \in 0..Cardinality(ToIssue(w.state, inst)) :
                  /\ k <= room
                  /\ \A n \in 1..k : fits(n)}
    IN IF ks = {} THEN {}
       ELSE Lowest(ToIssue(w.state, inst),
                   CHOOSE k \in ks : \A n \in ks : n <= k)

tooManyFailuresAlsoUnlimited(w, failed) ==
    failed >= w.maxTolerable

\* Step 4 of the tick; max_tolerable_instance_failures = 0 is no limit.
tooManyFailures(w, failed) ==
    w.maxTolerable > 0 /\ failed >= w.maxTolerable

\* Steps 3 to 5 of the tick: the state of the workflow after the count.
nextWorkflowState(w, inst) ==
    LET failed == Cardinality(Failed(w.state, inst))
    IN IF tooManyFailures(w, failed)
       THEN (IF w.state = "ROLLING_FORWARD" /\ w.rollback
             THEN "ROLLING_BACKWARD" ELSE "FAILED")
       ELSE IF Remaining(w.state, inst) = {}
       THEN (IF w.state = "ROLLING_FORWARD" THEN "SUCCEEDED"
             ELSE "ROLLED_BACK")
       ELSE w.state

Workflow(state, batchSize, maxUnavailable, maxTolerable, rollback) ==
    [state |-> state, batchSize |-> batchSize,
     maxUnavailable |-> maxUnavailable, maxTolerable |-> maxTolerable,
     rollback |-> rollback]

WfCall(op, issued) == [op |-> op, issued |-> issued]

WorkflowIdle ==
    /\ workflow = Workflow("INITIALIZED", 1, 1, 0, FALSE)
    /\ instState = [i \in WfInstances |-> "prev"]
    /\ wfCall = WfCall("Create", {})

\* A workflow as created: every instance runs the previous version.
WorkflowInit ==
    /\ \E batchSize \in 1..MaxBatch, maxUnavailable \in 1..MaxUnavailable,
          maxTolerable \in 0..MaxTolerable, rollback \in BOOLEAN :
           workflow = Workflow("INITIALIZED", batchSize, maxUnavailable,
                               maxTolerable, rollback)
    /\ instState = [i \in WfInstances |-> "prev"]
    /\ wfCall = WfCall("Create", {})

\* The first run of the controller starts to roll forward.
WorkflowStart ==
    /\ workflow.state = "INITIALIZED"
    /\ workflow' = [workflow EXCEPT !.state = "ROLLING_FORWARD"]
    /\ wfCall' = WfCall("Start", {})
    /\ UNCHANGED instState

\* The per-tick action of the controller.
WorkflowTick ==
    /\ workflow.state \in {"ROLLING_FORWARD", "ROLLING_BACKWARD"}
    /\ LET picked == pick(workflow, instState)
           issued == Issue(workflow.state, instState, picked)
       IN /\ instState' = issued
          /\ workflow' = [workflow EXCEPT
                             !.state = nextWorkflowState(workflow, issued)]
          /\ wfCall' = WfCall("Tick", picked)

\* An instance in flight reaches a terminal transitioned state: it runs
\* the version it was moved to, or it failed for good.
InstanceTransition ==
    \E i \in InFlight(instState), ok \in BOOLEAN :
        /\ instState' = [instState EXCEPT ![i] =
               IF instState[i] = "toTarget"
               THEN (IF ok THEN "target" ELSE "failedTarget")
               ELSE (IF ok THEN "prev" ELSE "failedPrev")]
        /\ wfCall' = WfCall("Transition", {})
        /\ UNCHANGED workflow

PauseWorkflow ==
    /\ workflow.state = "ROLLING_FORWARD"
    /\ workflow' = [workflow EXCEPT !.state = "PAUSED"]
    /\ wfCall' = WfCall("Pause", {})
    /\ UNCHANGED instState

ResumeWorkflow ==
    /\ workflow.state = "PAUSED"
    /\ workflow' = [workflow EXCEPT !.state = "ROLLING_FORWARD"]
    /\ wfCall' = WfCall("Resume", {})
    /\ UNCHANGED instState

AbortWorkflow ==
    /\ workflow.state \notin TerminalWorkflowStates
    /\ workflow' = [workflow EXCEPT !.state = "ABORTED"]
    /\ wfCall' = WfCall("Abort", {})
    /\ UNCHANGED instState

WorkflowNext ==
    \/ WorkflowStart
    \/ WorkflowTick
    \/ InstanceTransition
    \/ PauseWorkflow
    \/ ResumeWorkflow
    \/ AbortWorkflow

(***************************************************************************)
(* Killing tasks and shutting executors down (jobmgr/task/util.go): the    *)
(* RPCs to the host manager and the context each of them is sent with.     *)
(***************************************************************************)
\* A context without a deadline; any other context is its deadline.
NoDeadline == 0

defaultKillTaskActionTimeout == 5

Contexts == {NoDeadline, 1, 2}

RateLimiters == {"nil", "allow", "deny"}

Responses == {"ok", "err", "failure"}

OrphanTaskStates == {"RUNNING", "KILLING", "KILLED"}

IsPelotonStateTerminal(state) == state = "KILLED"

TaskInfos == [hasVolume : BOOLEAN, state : OrphanTaskStates, mesosTaskID : BOOLEAN]

Rpc(name, ctx) == [rpc |-> name, deadline |-> ctx]

NoRpc(err) == [sent |-> {}, err |-> err]

\* The error a call returns for the response of the host manager.
responseError(resp) ==
    CASE resp = "ok" -> "nil"
      [] resp = "err" -> "rpcError"
      [] OTHER -> "failure"

killHostSendingFirst(ctx, rateLimiter, resp) ==
    IF rateLimiter = "deny"
    THEN [sent |-> {Rpc("KillTasks", ctx)}, err |-> "ResourceExhausted"]
    ELSE [sent |-> {Rpc("KillTasks", ctx)}, err |-> responseError(resp)]

killHost(ctx, rateLimiter, resp) ==
    IF rateLimiter = "deny" THEN NoRpc("ResourceExhausted")
    ELSE [sent |-> {Rpc("KillTasks", ctx)}, err |-> responseError(resp)]

killAndReserveHost(ctx, parseOk, rateLimiter, resp) ==
    IF rateLimiter = "deny" THEN NoRpc("ResourceExhausted")
    ELSE IF ~parseOk THEN NoRpc("parseError")
    ELSE [sent |-> {Rpc("KillAndReserveTasks", ctx)},
          err |-> responseError(resp)]

\* KillTask: the caller's context when it has a deadline, otherwise a
\* background context with the default timeout.
KillTask(ctx, hostToReserve, parseOk, rateLimiter, resp) ==
    LET newCtx == IF ctx # NoDeadline THEN ctx
                  ELSE defaultKillTaskActionTimeout
    IN IF hostToReserve # ""
       THEN killAndReserveHost(newCtx, parseOk, rateLimiter, resp)
       ELSE killHost(newCtx, rateLimiter, resp)

\* ShutdownMesosExecutor: the RPC goes out with the caller's context.
ShutdownMesosExecutor(ctx, rateLimiter, resp) ==
    IF rateLimiter = "deny" THEN NoRpc("ResourceExhausted")
    ELSE [sent |-> {Rpc("ShutdownExecutors", ctx)},
          err |-> responseError(resp)]

KillOrphanTask(ctx, taskInfo, resp) ==
    IF taskInfo.hasVolume THEN NoRpc("nil")
    ELSE IF ~IsPelotonStateTerminal(taskInfo.state) /\ taskInfo.mesosTaskID
    THEN IF taskInfo.state = "KILLING"
         THEN ShutdownMesosExecutor(ctx, "nil", resp)
         ELSE KillTask(ctx, "", TRUE, "nil", resp)
    ELSE NoRpc("nil")

KillCall(op, ctx, err) == [op |-> op, ctx |-> ctx, err |-> err]

KillIdle ==
    /\ rpcLog = {}
    /\ killCall = KillCall("none", NoDeadline, "nil")

Record(op, ctx, out) ==
    /\ rpcLog' = rpcLog \cup out.sent
    /\ killCall' = KillCall(op, ctx, out.err)

DoKillTask ==
    \E ctx \in Contexts, hostToReserve \in {"", "h1"}, parseOk \in BOOLEAN,
       rateLimiter \in RateLimiters, resp \in Responses :
        Record("KillTask", ctx,
               KillTask(ctx, hostToReserve, parseOk, rateLimiter, resp))

DoKillOrphanTask ==
    \E ctx \in Contexts, taskInfo \in TaskInfos, resp \in Responses :
        Record("KillOrphanTask", ctx, KillOrphanTask(ctx, taskInfo, resp))

DoShutdownMesosExecutor ==
    \E ctx \in Contexts, rateLimiter \in RateLimiters, resp \in Responses :
        Record("ShutdownMesosExecutor", ctx,
               ShutdownMesosExecutor(ctx, rateLimiter, resp))

KillNext == DoKillTask \/ DoKillOrphanTask \/ DoShutdownMesosExecutor

(***************************************************************************)
(* The offer pool: the summaries of its hosts and the index from a task    *)
(* to the host held for it.                                                *)
(***************************************************************************)
PoolHosts == {"hostname-0", "hostname-1"}

NoHost == ""

\* The offer generateOffers gives a host.
PoolOffer == "u1"

\* The filter of an acquire: one cpu, with the hosts it hints at.
AcquireFilter(hint) ==
    [cpu |-> 1, gpu |-> 0, revocable |-> FALSE, hint |-> hint,
     evaluate |-> "NotApplicable"]

PoolCall(op, h, released) == [op |-> op, host |-> h, released |-> released]

PoolIdle ==
    /\ pool = [h \in PoolHosts |-> NewSummary]
    /\ taskHeldIndex = [task \in Tasks |-> NoHost]
    /\ poolNow = 0
    /\ poolNextID = 1
    /\ poolCall = PoolCall("New", NoHost, {})

GetHostHeldForTask(index, task) == index[task]

addTaskHeld(index, h, tasks) ==
    [task \in Tasks |-> IF task \in tasks THEN h ELSE index[task]]

removeTaskHeldKeepingIndex(index, tasks) == index

removeTaskHeld(index, tasks) ==
    [task \in Tasks |-> IF task \in tasks THEN NoHost ELSE index[task]]

\* HoldForTask of the summary for each of the tasks.
RECURSIVE HoldForTasks(_, _, _)
HoldForTasks(s, tasks, t) ==
    IF tasks = {} THEN s
    ELSE LET task == CHOOSE x \in tasks : TRUE
         IN HoldForTasks(HoldForTask(s, task, t), tasks \ {task}, t)

\* The summaries after the hold of each of the tasks is released on the
\* host the index names for it.
ReleaseHeld(p, index, tasks) ==
    [h \in PoolHosts |->
        LET mine == {task \in tasks : index[task] = h}
            one == IF mine = {} THEN p[h]
                   ELSE ReleaseHoldForTask(p[h], CHOOSE x \in mine : TRUE)
        IN IF Cardinality(mine) <= 1 THEN one
           ELSE ReleaseHoldForTask(one,
                    CHOOSE x \in mine : x # (CHOOSE y \in mine : TRUE))]

\* The tasks among the given ones that are held, each with its host.
HeldPairs(index, tasks) ==
    {<<task, index[task]>> : task \in {x \in tasks : index[x] # NoHost}}

PoolAddOffers ==
    \E h \in PoolHosts :
        /\ pool[h].unreservedOffers = {}
        /\ pool' = [pool EXCEPT ![h] = AddMesosOffers(@, {PoolOffer}, {})]
        /\ poolCall' = PoolCall("AddOffers", h, {})
        /\ UNCHANGED <<taskHeldIndex, poolNow, poolNextID>>

\* HoldForTasks of the pool, for tasks no other host is held for.
PoolHoldForTasks ==
    \E h \in PoolHosts, tasks \in SUBSET Tasks :
        /\ tasks # {}
        /\ \A task \in tasks : taskHeldIndex[task] \in {NoHost, h}
        /\ pool' = [pool EXCEPT ![h] = HoldForTasks(@, tasks, poolNow)]
        /\ taskHeldIndex' = addTaskHeld(taskHeldIndex, h, tasks)
        /\ poolCall' = PoolCall("HoldForTasks", h, {})
        /\ UNCHANGED <<poolNow, poolNextID>>

ReleaseHostsHeldForTasks ==
    \E tasks \in SUBSET Tasks :
        /\ tasks # {}
        /\ pool' = ReleaseHeld(pool, taskHeldIndex, tasks)
        /\ taskHeldIndex' = removeTaskHeld(taskHeldIndex, tasks)
        /\ poolCall' = PoolCall("ReleaseHostsHeldForTasks", NoHost,
                                HeldPairs(taskHeldIndex, tasks))
        /\ UNCHANGED <<poolNow, poolNextID>>

AcquireHostOffers ==
    \E h \in PoolHosts, hint \in SUBSET PoolHosts :
        LET m == TryMatch(pool[h], h, AcquireFilter(hint), poolNextID, poolNow)
        IN /\ poolNextID <= MaxOfferIDs
           /\ m.result = MATCH
           /\ pool' = [pool EXCEPT ![h] = m.s]
           /\ poolNextID' = poolNextID + 1
           /\ poolCall' = PoolCall("AcquireHostOffers", h, {})
           /\ UNCHANGED <<taskHeldIndex, poolNow>>

ReleaseHostOffers ==
    \E h \in PoolHosts :
        LET r == ReturnPlacingHost(pool[h])
        IN /\ ~r.err
           /\ pool' = [pool EXCEPT ![h] = r.s]
           /\ poolCall' = PoolCall("ReleaseHostOffers", h, {})
           /\ UNCHANGED <<taskHeldIndex, poolNow, poolNextID>>

\* LaunchTasks: the claim on the host of the launch, then the release of the
\* hosts that are held for the launched tasks.
LaunchTasks ==
    \E h \in PoolHosts, tasks \in SUBSET Tasks :
        LET c == ClaimForLaunch(pool[h], pool[h].hostOfferID, tasks)
            claimed == [pool EXCEPT ![h] = c.s]
        IN /\ tasks # {}
           /\ ~c.err
           /\ pool' = ReleaseHeld(claimed, taskHeldIndex, tasks)
           /\ taskHeldIndex' = removeTaskHeld(taskHeldIndex, tasks)
           /\ poolCall' = PoolCall("LaunchTasks", h,
                                   HeldPairs(taskHeldIndex, tasks))
           /\ UNCHANGED <<poolNow, poolNextID>>

\* The sweep over the held hosts: expired holds leave the host and the index.
ResetExpiredHeldHostSummaries ==
    LET expired == UNION {ExpiredTasks(pool[h], poolNow) : h \in PoolHosts}
    IN /\ pool' = [h \in PoolHosts |->
                      ResetExpiredHostHeldStatus(pool[h], poolNow).s]
       /\ taskHeldIndex' = removeTaskHeld(taskHeldIndex, expired)
       /\ poolCall' = PoolCall("ResetExpiredHeldHostSummaries", NoHost,
                               HeldPairs(taskHeldIndex, expired))
       /\ UNCHANGED <<poolNow, poolNextID>>

PoolTick ==
    /\ poolNow < MaxTime
    /\ poolNow' = poolNow + 1
    /\ UNCHANGED <<pool, taskHeldIndex, poolNextID, poolCall>>

PoolNext ==
    \/ PoolAddOffers
    \/ PoolHoldForTasks
    \/ ReleaseHostsHeldForTasks
    \/ AcquireHostOffers
    \/ ReleaseHostOffers
    \/ LaunchTasks
    \/ ResetExpiredHeldHostSummaries
    \/ PoolTick

(***************************************************************************)
(* The host actions of the command line client (cli/host_actions.go): the  *)
(* RPC each action issues, what it prints and the error it returns.        *)
(***************************************************************************)
RpcOutcomes == {"ok", "failed"}

\* The exit code of the client for the error an action returns.
ExitCode(err) == IF err = "nil" THEN 0 ELSE 1

\* What an action did: the outcome of its RPC ("none" when it sent none),
\* the error it returned and the text it printed.
Done(action, rpc, err, out) ==
    [action |-> action, rpc |-> rpc, err |-> err,
     exit |-> ExitCode(err), out |-> out]

HostMaintenanceStartAction(extractOk, rpc) ==
    IF ~extractOk
    THEN Done("HostMaintenanceStart", "none", "extractError", "")
    ELSE IF rpc = "failed"
    THEN Done("HostMaintenanceStart", rpc, "rpcError", "")
    ELSE Done("HostMaintenanceStart", rpc, "nil", "Started draining hosts")

HostMaintenanceCompleteAction(extractOk, rpc) ==
    IF ~extractOk
    THEN Done("HostMaintenanceComplete", "none", "extractError", "")
    ELSE IF rpc = "failed"
    THEN Done("HostMaintenanceComplete", rpc, "rpcError", "")
    ELSE Done("HostMaintenanceComplete", rpc, "nil", "Maintenance completed")

printHostQueryResponse(hostInfos, debug) ==
    IF debug THEN "json"
    ELSE IF hostInfos = 0 THEN "No hosts found"
    ELSE "hosts"

HostQueryAction(rpc, hostInfos, debug) ==
    IF rpc = "failed" THEN Done("HostQuery", rpc, "rpcError", "")
    ELSE Done("HostQuery", rpc, "nil", printHostQueryResponse(hostInfos, debug))

\* A response that is nil has no hosts.
printGetHostsResponse(hosts) ==
    IF hosts = 0 THEN "No hosts found satisfies the requirement"
    ELSE "hosts"

\* HostsGetAction drops the error of GetHostsByQuery and prints the
\* response, which is nil when the RPC failed.
HostsGetAction(hostsGiven, extractOk, rpc, hosts) ==
    IF hostsGiven /\ ~extractOk
    THEN Done("HostsGet", "none", "extractError", "")
    ELSE Done("HostsGet", rpc, "nil",
              printGetHostsResponse(IF rpc = "failed" THEN 0 ELSE hosts))

DisableKillTasksAction(rpc) ==
    IF rpc = "failed" THEN Done("DisableKillTasks", rpc, "rpcError", "")
    ELSE Done("DisableKillTasks", rpc, "nil", "Disabled kill tasks request")

CliInit ==
    /\ cliLog = {}
    /\ tabWriter = ""

Ran(d) ==
    /\ cliLog' = cliLog \cup {[action |-> d.action, rpc |-> d.rpc,
                               exit |-> d.exit]}
    /\ tabWriter' = d.out

DoHostMaintenanceStart ==
    \E extractOk \in BOOLEAN, rpc \in RpcOutcomes :
        Ran(HostMaintenanceStartAction(extractOk, rpc))

DoHostMaintenanceComplete ==
    \E extractOk \in BOOLEAN, rpc \in RpcOutcomes :
        Ran(HostMaintenanceCompleteAction(extractOk, rpc))

DoHostQuery ==
    \E rpc \in RpcOutcomes, hostInfos \in 0..1, debug \in BOOLEAN :
        Ran(HostQueryAction(rpc, hostInfos, debug))

DoHostsGet ==
    \E hostsGiven \in BOOLEAN, extractOk \in BOOLEAN, rpc \in RpcOutcomes,
       hosts \in 0..1 :
        Ran(HostsGetAction(hostsGiven, extractOk, rpc, hosts))

DoDisableKillTasks ==
    \E rpc \in RpcOutcomes : Ran(DisableKillTasksAction(rpc))

CliNext ==
    \/ DoHostMaintenanceStart
    \/ DoHostMaintenanceComplete
    \/ DoHostQuery
    \/ DoHostsGet
    \/ DoDisableKillTasks

CliIdle == CliInit

(***************************************************************************)
(* KillAndReserveTasks of the host manager: each entry names a task to     *)
(* kill and the host to hold for it.                                       *)
(***************************************************************************)
\* A host the pool has no summary for.
UnknownHost == "hostname-2"

ReserveCall(tasks, hosts, held, failed) ==
    [tasks |-> tasks, hosts |-> hosts, held |-> held, failed |-> failed,
     killed |-> tasks, respError |-> failed # {}]

NoReserveCall == ReserveCall({}, <<>>, {}, {})

ReserveInit == reserveCall = NoReserveCall

ReserveIdle == ReserveInit

killAndReserveEntryKeepingHold(p, index, task, h, killFails, t) ==
    IF h \notin PoolHosts THEN [pool |-> p, index |-> index, held |-> FALSE]
    ELSE [pool |-> [p EXCEPT ![h] = HoldForTasks(@, {task}, t)],
          index |-> addTaskHeld(index, h, {task}),
          held |-> TRUE]

\* One entry: the host is put on hold for the task when the pool knows the
\* host, the kill is sent, and the hold is released when the kill fails.
killAndReserveEntry(p, index, task, h, killFails, t) ==
    IF h \notin PoolHosts THEN [pool |-> p, index |-> index, held |-> FALSE]
    ELSE LET heldPool == [p EXCEPT ![h] = HoldForTasks(@, {task}, t)]
             heldIndex == addTaskHeld(index, h, {task})
         IN IF killFails
            THEN [pool |-> ReleaseHeld(heldPool, heldIndex, {task}),
                  index |-> removeTaskHeld(heldIndex, {task}),
                  held |-> TRUE]
            ELSE [pool |-> heldPool, index |-> heldIndex, held |-> TRUE]

\* The entries of a request one after the other.
RECURSIVE killAndReserveEntries(_, _, _, _, _, _)
killAndReserveEntries(p, index, tasks, hosts, failing, t) ==
    IF tasks = {} THEN [pool |-> p, index |-> index, held |-> {}]
    ELSE LET task == CHOOSE x \in tasks : TRUE
             one == killAndReserveEntry(p, index, task, hosts[task],
                                        task \in failing, t)
             rest == killAndReserveEntries(one.pool, one.index,
                                           tasks \ {task}, hosts, failing, t)
         IN [pool |-> rest.pool, index |-> rest.index,
             held |-> rest.held \cup (IF one.held THEN {task} ELSE {})]

\* KillAndReserveTasks, for tasks no other host is held for.
KillAndReserveTasks ==
    \E tasks \in SUBSET Tasks :
        \E hosts \in [tasks -> PoolHosts \cup {UnknownHost}],
           failing \in SUBSET tasks :
            LET r == killAndReserveEntries(pool, taskHeldIndex, tasks, hosts,
                                           failing, poolNow)
            IN /\ tasks # {}
               /\ \A task \in tasks :
                     taskHeldIndex[task] \in {NoHost, hosts[task]}
               /\ pool' = r.pool
               /\ taskHeldIndex' = r.index
               /\ poolCall' = PoolCall("KillAndReserveTasks", NoHost, {})
               /\ reserveCall' = ReserveCall(tasks, hosts, r.held, failing)
               /\ UNCHANGED <<poolNow, poolNextID>>

\* The requests to the host manager around a kill-and-reserve.
ReserveNext ==
    \/ KillAndReserveTasks
    \/ /\ \/ PoolAddOffers
          \/ PoolHoldForTasks
          \/ ReleaseHostsHeldForTasks
          \/ AcquireHostOffers
          \/ ReleaseHostOffers
       /\ reserveCall' = NoReserveCall

(***************************************************************************)
(* The job factory of the cache: goroutines that call AddJob and GetJob    *)
(* while the metrics publisher iterates over the jobs. The map of the jobs *)
(* is guarded by a read-write lock on which a waiting writer holds new     *)
(* readers back.                                                           *)
(***************************************************************************)
JobIDs == {"id1", "id2"}

Adders == {"add1", "add2"}

Getters == {"get1"}

Publishers == {"metrics"}

Goroutines == Adders \cup Getters \cup Publishers

NoJob == 0

NoGoroutine == "none"

\* A read lock is granted when no writer holds the lock and none waits.
canRLock(writer, pcs) ==
    writer = NoGoroutine /\ \A g \in Goroutines : pcs[g] # "lock"

\* The write lock is granted when nobody holds the lock.
canLock(writer, readers) == writer = NoGoroutine /\ readers = {}

addJobWithoutRecheck(jobs, id, next) ==
    [jobs |-> [jobs EXCEPT ![id] = next], job |-> next, next |-> next + 1]

\* AddJob under the write lock: the job of the id when it came to exist in
\* the meantime, otherwise a new job.
addJobLocked(jobs, id, next) ==
    IF jobs[id] # NoJob
    THEN [jobs |-> jobs, job |-> jobs[id], next |-> next]
    ELSE [jobs |-> [jobs EXCEPT ![id] = next], job |-> next,
          next |-> next + 1]

FactoryInit ==
    /\ fJobs = [id \in JobIDs |-> NoJob]
    /\ fReaders = {}
    /\ fWriter = NoGoroutine
    /\ fPc = [g \in Goroutines |-> "idle"]
    /\ fArg = [g \in Goroutines |-> "id1"]
    /\ fCalls = [g \in Goroutines |-> 0]
    /\ fReturned = {}
    /\ fNextJob = 1
    /\ fPublished = {}

FactoryIdle == FactoryInit

\* A goroutine starts a call: AddJob, GetJob or publishMetrics.
StartCall ==
    \E g \in Goroutines, id \in JobIDs :
        /\ fPc[g] = "idle"
        /\ fCalls[g] < MaxCalls
        /\ fPc' = [fPc EXCEPT ![g] = "rlock"]
        /\ fArg' = [fArg EXCEPT ![g] = IF g \in Publishers THEN "id1" ELSE id]
        /\ fCalls' = [fCalls EXCEPT ![g] = @ + 1]
        /\ UNCHANGED <<fJobs, fReaders, fWriter, fReturned, fNextJob,
                       fPublished>>

RLock ==
    \E g \in Goroutines :
        /\ fPc[g] = "rlock"
        /\ canRLock(fWriter, fPc)
        /\ fReaders' = fReaders \cup {g}
        /\ fPc' = [fPc EXCEPT ![g] = "read"]
        /\ UNCHANGED <<fJobs, fWriter, fArg, fCalls, fReturned, fNextJob,
                       fPublished>>

\* GetJob, also as the first step of AddJob: read the map, drop the read
\* lock; AddJob goes on to the write lock when the job is not there.
GetJob ==
    \E g \in Adders \cup Getters :
        LET found == fJobs[fArg[g]]
        IN /\ fPc[g] = "read"
           /\ fReaders' = fReaders \ {g}
           /\ fPc' = [fPc EXCEPT ![g] =
                  IF g \in Adders /\ found = NoJob THEN "lock" ELSE "idle"]
           /\ fReturned' = IF g \in Adders /\ found # NoJob
                           THEN fReturned \cup {<<fArg[g], found>>}
                           ELSE fReturned
           /\ UNCHANGED <<fJobs, fWriter, fArg, fCalls, fNextJob, fPublished>>

Lock ==
    \E g \in Adders :
        /\ fPc[g] = "lock"
        /\ canLock(fWriter, fReaders)
        /\ fWriter' = g
        /\ fPc' = [fPc EXCEPT ![g] = "insert"]
        /\ UNCHANGED <<fJobs, fReaders, fArg, fCalls, fReturned, fNextJob,
                       fPublished>>

\* AddJob under the write lock, up to the unlock and the return.
AddJob ==
    \E g \in Adders :
        LET r == addJobLocked(fJobs, fArg[g], fNextJob)
        IN /\ fPc[g] = "insert"
           /\ fJobs' = r.jobs
           /\ fNextJob' = r.next
           /\ fReturned' = fReturned \cup {<<fArg[g], r.job>>}
           /\ fWriter' = NoGoroutine
           /\ fPc' = [fPc EXCEPT ![g] = "idle"]
           /\ UNCHANGED <<fReaders, fArg, fCalls, fPublished>>

\* publishMetrics: take the jobs under the read lock, then count them.
publishMetrics ==
    \E g \in Publishers :
        /\ fPc[g] = "read"
        /\ fPublished' = {id \in JobIDs : fJobs[id] # NoJob}
        /\ fReaders' = fReaders \ {g}
        /\ fPc' = [fPc EXCEPT ![g] = "idle"]
        /\ UNCHANGED <<fJobs, fWriter, fArg, fCalls, fReturned, fNextJob>>

FactoryNext ==
    \/ StartCall
    \/ RLock
    \/ GetJob
    \/ Lock
    \/ AddJob
    \/ publishMetrics

(***************************************************************************)
(* The task tracker of the resource manager: GetActiveTasks, SetPlacement, *)
(* AddTask and MarkItDone on the tracker's read-write lock, and the state  *)
(* machine of a task with a read-write lock of its own. The goroutines of  *)
(* the deadlock scenario hand over to each other on unbuffered channels.   *)
(***************************************************************************)
TrackerGoroutines ==
    {"rollback", "getActiveTasks", "setPlacement", "addTask", "markItDone"}

TrackerWriters == {"setPlacement", "addTask", "markItDone"}

TrackerCallers == {"addTask", "markItDone"}

NoPlacement == ""

\* A read lock on the tracker is granted when no writer holds the lock and
\* none is queued for it.
trackerCanRLock(writer, pcs) ==
    writer = NoGoroutine /\ \A g \in TrackerGoroutines : pcs[g] # "lock"

rollbackCanRLockQueued(writer, pcs) == trackerCanRLock(writer, pcs)

\* The read access of the rollback to the tracker is not put in the queue
\* behind a waiting writer.
rollbackCanRLock(writer, pcs) == writer = NoGoroutine

TrackerInit ==
    /\ trTasks = {"t1"}
    /\ trPlacement = NoPlacement
    /\ trReaders = {}
    /\ trWriter = NoGoroutine
    /\ smReaders = {}
    /\ smWriter = NoGoroutine
    /\ trPc = [g \in TrackerGoroutines |->
                 CASE g = "rollback" -> "recvStartSMRollBack"
                   [] g = "getActiveTasks" -> "rlock"
                   [] g = "setPlacement" -> "recvStartSetPlacement"
                   [] OTHER -> "idle"]
    /\ trCalls = [g \in TrackerCallers |-> 0]
    /\ trInterleaved = FALSE

TrackerIdle == TrackerInit

\* GetActiveTasks takes the read lock of the tracker.
GetActiveTasks ==
    /\ trPc["getActiveTasks"] = "rlock"
    /\ trackerCanRLock(trWriter, trPc)
    /\ trReaders' = trReaders \cup {"getActiveTasks"}
    /\ trPc' = [trPc EXCEPT !["getActiveTasks"] = "sendStartSMRollBack"]
    /\ UNCHANGED <<trTasks, trPlacement, trWriter, smReaders, smWriter,
                   trCalls, trInterleaved>>

\* GetCurrentState of the task, called under the tracker's read lock,
\* starts the rollback.
startSMRollBack ==
    /\ trPc["getActiveTasks"] = "sendStartSMRollBack"
    /\ trPc["rollback"] = "recvStartSMRollBack"
    /\ "t1" \in trTasks
    /\ trPc' = [trPc EXCEPT !["getActiveTasks"] = "recvContinueGATask",
                            !["rollback"] = "smLock"]
    /\ UNCHANGED <<trTasks, trPlacement, trReaders, trWriter, smReaders,
                   smWriter, trCalls, trInterleaved>>

\* The rollback takes the write lock of the state machine.
smLockLock ==
    /\ trPc["rollback"] = "smLock"
    /\ canLock(smWriter, smReaders)
    /\ smWriter' = "rollback"
    /\ trPc' = [trPc EXCEPT !["rollback"] = "sendContinueGATask"]
    /\ UNCHANGED <<trTasks, trPlacement, trReaders, trWriter, smReaders,
                   trCalls, trInterleaved>>

continueGATask ==
    /\ trPc["rollback"] = "sendContinueGATask"
    /\ trPc["getActiveTasks"] = "recvContinueGATask"
    /\ trPc' = [trPc EXCEPT !["rollback"] = "sendStartSetPlacement",
                            !["getActiveTasks"] = "smRLock"]
    /\ UNCHANGED <<trTasks, trPlacement, trReaders, trWriter, smReaders,
                   smWriter, trCalls, trInterleaved>>

\* The rollback lets SetPlacement go, which queues for the write lock of
\* the tracker.
startSetPlacement ==
    /\ trPc["rollback"] = "sendStartSetPlacement"
    /\ trPc["setPlacement"] = "recvStartSetPlacement"
    /\ trPc' = [trPc EXCEPT !["rollback"] = "trackerRLock",
                            !["setPlacement"] = "lock"]
    /\ UNCHANGED <<trTasks, trPlacement, trReaders, trWriter, smReaders,
                   smWriter, trCalls, trInterleaved>>

\* The rollback, holding the write lock of the state machine, reads the
\* tracker.
RollbackTrackerRLock ==
    /\ trPc["rollback"] = "trackerRLock"
    /\ rollbackCanRLock(trWriter, trPc)
    /\ trReaders' = trReaders \cup {"rollback"}
    /\ trPc' = [trPc EXCEPT !["rollback"] = "smUnlock"]
    /\ trInterleaved' = (\/ trInterleaved
                         \/ /\ "getActiveTasks" \in trReaders
                            /\ trPc["getActiveTasks"] = "smRLock"
                            /\ trPc["setPlacement"] = "lock")
    /\ UNCHANGED <<trTasks, trPlacement, trWriter, smReaders, smWriter,
                   trCalls>>

\* The rollback is over: it gives back the tracker and the write lock of
\* the state machine.
smLockUnlock ==
    /\ trPc["rollback"] = "smUnlock"
    /\ trReaders' = trReaders \ {"rollback"}
    /\ smWriter' = NoGoroutine
    /\ trPc' = [trPc EXCEPT !["rollback"] = "done"]
    /\ UNCHANGED <<trTasks, trPlacement, trWriter, smReaders, trCalls,
                   trInterleaved>>

\* GetCurrentState takes the read lock of the state machine.
GetCurrentState ==
    /\ trPc["getActiveTasks"] = "smRLock"
    /\ smWriter = NoGoroutine
    /\ trPc["rollback"] # "smLock"
    /\ smReaders' = smReaders \cup {"getActiveTasks"}
    /\ trPc' = [trPc EXCEPT !["getActiveTasks"] = "return"]
    /\ UNCHANGED <<trTasks, trPlacement, trReaders, trWriter, smWriter,
                   trCalls, trInterleaved>>

\* GetCurrentState and then GetActiveTasks return and give their read
\* locks back.
GetActiveTasksReturn ==
    /\ trPc["getActiveTasks"] = "return"
    /\ smReaders' = smReaders \ {"getActiveTasks"}
    /\ trReaders' = trReaders \ {"getActiveTasks"}
    /\ trPc' = [trPc EXCEPT !["getActiveTasks"] = "done"]
    /\ UNCHANGED <<trTasks, trPlacement, trWriter, smWriter, trCalls,
                   trInterleaved>>

\* A goroutine calls AddTask or MarkItDone and queues for the write lock.
TrackerCall ==
    \E g \in TrackerCallers :
        /\ trPc[g] = "idle"
        /\ trCalls[g] < MaxCalls
        /\ trCalls' = [trCalls EXCEPT ![g] = @ + 1]
        /\ trPc' = [trPc EXCEPT ![g] = "lock"]
        /\ UNCHANGED <<trTasks, trPlacement, trReaders, trWriter, smReaders,
                       smWriter, trInterleaved>>

\* The write lock of the tracker is granted to a queued writer.
TrackerLock ==
    \E g \in TrackerWriters :
        /\ trPc[g] = "lock"
        /\ canLock(trWriter, trReaders)
        /\ trWriter' = g
        /\ trPc' = [trPc EXCEPT ![g] = "locked"]
        /\ UNCHANGED <<trTasks, trPlacement, trReaders, smReaders, smWriter,
                       trCalls, trInterleaved>>

\* SetPlacement under the write lock, up to the unlock.
SetPlacement ==
    /\ trPc["setPlacement"] = "locked"
    /\ trPlacement' = IF "t1" \in trTasks THEN "hostname" ELSE trPlacement
    /\ trWriter' = NoGoroutine
    /\ trPc' = [trPc EXCEPT !["setPlacement"] = "done"]
    /\ UNCHANGED <<trTasks, trReaders, smReaders, smWriter, trCalls,
                   trInterleaved>>

\* AddTask under the write lock, up to the unlock.
addTaskToTracker ==
    /\ trPc["addTask"] = "locked"
    /\ trTasks' = trTasks \cup {"t2"}
    /\ trWriter' = NoGoroutine
    /\ trPc' = [trPc EXCEPT !["addTask"] = "idle"]
    /\ UNCHANGED <<trPlacement, trReaders, smReaders, smWriter, trCalls,
                   trInterleaved>>

\* MarkItDone deletes the task under the write lock, up to the unlock.
MarkItDone ==
    /\ trPc["markItDone"] = "locked"
    /\ trTasks' = trTasks \ {"t2"}
    /\ trWriter' = NoGoroutine
    /\ trPc' = [trPc EXCEPT !["markItDone"] = "idle"]
    /\ UNCHANGED <<trPlacement, trReaders, smReaders, smWriter, trCalls,
                   trInterleaved>>

TrackerNext ==
    \/ GetActiveTasks
    \/ startSMRollBack
    \/ smLockLock
    \/ continueGATask
    \/ startSetPlacement
    \/ RollbackTrackerRLock
    \/ smLockUnlock
    \/ GetCurrentState
    \/ GetActiveTasksReturn
    \/ TrackerCall
    \/ TrackerLock
    \/ SetPlacement
    \/ addTaskToTracker
    \/ MarkItDone
(***************************************************************************)
(* The specifications: of the host summary, of the job runtime updater     *)
(* (what it determines, what it writes), of the goal-state engine, of      *)
(* recovery, of the rolling-workflow controller, of the kill calls, of the  *)
(* offer pool and of the parts that follow them.                           *)
(***************************************************************************)
vars == <<summaries, now, nextOfferID, lastCall, matchWindow,
          placingMatches, prePlacing, job, taskCache, run, written,
          queue, engineNow, worker, entityLock, engineCall,
          activeJobs, jobStore, visit, failedBatches, recovery,
          workflow, instState, wfCall, rpcLog, killCall,
          pool, taskHeldIndex, poolNow, poolNextID, poolCall,
          cliLog, tabWriter,
          reserveCall,
          fJobs, fReaders, fWriter, fPc, fArg, fCalls, fReturned, fNextJob, fPublished,
          trTasks, trPlacement, trReaders, trWriter, smReaders, smWriter, trPc, trCalls, trInterleaved>>

Init == HostInit /\ UpdaterIdle /\ EngineInit /\ RecoveryIdle /\ WorkflowIdle /\ KillIdle /\ PoolIdle /\ CliIdle /\ ReserveIdle /\ FactoryIdle /\ TrackerIdle
Next == HostNext /\ UNCHANGED <<updaterVars, engineVars, recoveryVars, workflowVars,
                      killVars, poolVars, cliVars, reserveVars, factoryVars, trackerVars>>
Spec == Init /\ [][Next]_vars

\* The host summary with time passing and the background sweep running,
\* where no caller claims or releases the hosts it was given.
SweepExpiredPlacing ==
    /\ DoResetExpiredPlacingOfferStatus
    /\ lastCall'.result = "reset"
NextSweep ==
    /\ \/ DoAddMesosOffers
       \/ DoTryMatch
       \/ DoHoldForTask
       \/ DoResetExpiredPlacingOfferStatus
       \/ Tick
    /\ UNCHANGED <<updaterVars, engineVars, recoveryVars, workflowVars,
                   killVars, poolVars, cliVars, reserveVars, factoryVars, trackerVars>>
SpecSweep ==
    /\ Init /\ [][NextSweep]_vars
    /\ WF_vars(NextSweep /\ Tick)
    /\ WF_vars(NextSweep /\ SweepExpiredPlacing)

InitUpdater == UpdaterInit /\ HostInit /\ EngineInit /\ RecoveryIdle /\ WorkflowIdle /\ KillIdle /\ PoolIdle /\ CliIdle /\ ReserveIdle /\ FactoryIdle /\ TrackerIdle
NextUpdater == UpdaterNext /\ UNCHANGED <<hostVars, engineVars, recoveryVars, workflowVars,
                      killVars, poolVars, cliVars, reserveVars, factoryVars, trackerVars>>
SpecUpdater == InitUpdater /\ [][NextUpdater]_vars

NextWriter == WriterNext /\ UNCHANGED <<hostVars, engineVars, recoveryVars, workflowVars,
                      killVars, poolVars, cliVars, reserveVars, factoryVars, trackerVars>>
SpecWriter == InitUpdater /\ [][NextWriter]_vars

InitEngine == EngineInit /\ HostInit /\ UpdaterIdle /\ RecoveryIdle /\ WorkflowIdle /\ KillIdle /\ PoolIdle /\ CliIdle /\ ReserveIdle /\ FactoryIdle /\ TrackerIdle
NextEngine == EngineNext /\ UNCHANGED <<hostVars, updaterVars, recoveryVars, workflowVars,
                      killVars, poolVars, cliVars, reserveVars, factoryVars, trackerVars>>
SpecEngine == InitEngine /\ [][NextEngine]_vars

InitRecovery == RecoveryInit /\ HostInit /\ UpdaterIdle /\ EngineInit /\ WorkflowIdle /\ KillIdle /\ PoolIdle /\ CliIdle /\ ReserveIdle /\ FactoryIdle /\ TrackerIdle
NextRecovery == RecoveryNext /\ UNCHANGED <<hostVars, updaterVars, engineVars, workflowVars,
                      killVars, poolVars, cliVars, reserveVars, factoryVars, trackerVars>>
SpecRecovery == InitRecovery /\ [][NextRecovery]_vars

InitWorkflow == WorkflowInit /\ HostInit /\ UpdaterIdle /\ EngineInit
                    /\ RecoveryIdle /\ KillIdle /\ PoolIdle /\ CliIdle /\ ReserveIdle /\ FactoryIdle /\ TrackerIdle
NextWorkflow == WorkflowNext /\ UNCHANGED <<hostVars, updaterVars, engineVars,
                                            recoveryVars,
                      killVars, poolVars, cliVars, reserveVars, factoryVars, trackerVars>>
SpecWorkflow == InitWorkflow /\ [][NextWorkflow]_vars

InitKill == KillIdle /\ HostInit /\ UpdaterIdle /\ EngineInit /\ RecoveryIdle
                /\ WorkflowIdle /\ PoolIdle /\ CliIdle /\ ReserveIdle /\ FactoryIdle /\ TrackerIdle
NextKill == KillNext /\ UNCHANGED <<hostVars, updaterVars, engineVars,
                                    recoveryVars, workflowVars, poolVars, cliVars, reserveVars, factoryVars, trackerVars>>
SpecKill == InitKill /\ [][NextKill]_vars

InitPool == PoolIdle /\ HostInit /\ UpdaterIdle /\ EngineInit /\ RecoveryIdle
                /\ WorkflowIdle /\ KillIdle /\ CliIdle /\ ReserveIdle /\ FactoryIdle /\ TrackerIdle
NextPool == PoolNext /\ UNCHANGED <<hostVars, updaterVars, engineVars,
                                    recoveryVars, workflowVars, killVars, cliVars, reserveVars, factoryVars, trackerVars>>
SpecPool == InitPool /\ [][NextPool]_vars

InitCli == CliInit /\ HostInit /\ UpdaterIdle /\ EngineInit
                /\ RecoveryIdle /\ WorkflowIdle /\ KillIdle /\ PoolIdle /\ ReserveIdle /\ FactoryIdle /\ TrackerIdle
NextCli == CliNext /\ UNCHANGED <<hostVars, updaterVars, engineVars,
        recoveryVars, workflowVars, killVars, poolVars, reserveVars, factoryVars, trackerVars>>
SpecCli == InitCli /\ [][NextCli]_vars

InitReserve == ReserveInit /\ HostInit /\ UpdaterIdle /\ EngineInit
                /\ RecoveryIdle /\ WorkflowIdle /\ KillIdle /\ PoolIdle /\ CliIdle /\ FactoryIdle /\ TrackerIdle
NextReserve == ReserveNext /\ UNCHANGED <<hostVars, updaterVars, engineVars,
        recoveryVars, workflowVars, killVars, cliVars, factoryVars, trackerVars>>
SpecReserve == InitReserve /\ [][NextReserve]_vars

InitFactory == FactoryInit /\ HostInit /\ UpdaterIdle /\ EngineInit
                /\ RecoveryIdle /\ WorkflowIdle /\ KillIdle /\ PoolIdle /\ CliIdle /\ ReserveIdle /\ TrackerIdle
NextFactory == FactoryNext /\ UNCHANGED <<hostVars, updaterVars, engineVars,
        recoveryVars, workflowVars, killVars, poolVars, cliVars, reserveVars, trackerVars>>
SpecFactory == InitFactory /\ [][NextFactory]_vars

InitTracker == TrackerInit /\ HostInit /\ UpdaterIdle /\ EngineInit
                /\ RecoveryIdle /\ WorkflowIdle /\ KillIdle /\ PoolIdle /\ CliIdle /\ FactoryIdle /\ ReserveIdle
NextTracker == TrackerNext /\ UNCHANGED <<hostVars, updaterVars, engineVars,
        recoveryVars, workflowVars, killVars, poolVars, cliVars, factoryVars, reserveVars>>
SpecTracker == InitTracker /\ [][NextTracker]_vars

(***************************************************************************)
(* Properties of the host summary.                                         *)
(***************************************************************************)
IsCall(c, op, result) == c.op = op /\ c.result = result

\* C1 (as amended): while a host is Placing no TryMatch returns MATCH, so
\* between the host entering Placing and its leaving Placing -- by
\* ClaimForLaunch, by the placing expiry or by ReturnPlacingHost -- exactly
\* the one TryMatch that made it Placing returned MATCH.
C1_OneMatchPerPlacing ==
    /\ \A h \in Hosts : placingMatches[h] <= 1
    /\ \A h \in Hosts : summaries[h].status = PlacingHost =>
           placingMatches[h] = 1
    /\ \A h \in Hosts, f \in Filters :
           summaries[h].status = PlacingHost =>
               TryMatch(summaries[h], h, f, nextOfferID, now).result = MISMATCH_STATUS

\* A second TryMatch on a Placing host was answered MISMATCH_STATUS.
C1_Witness ==
    \E h \in Hosts :
        /\ IsCall(lastCall, "TryMatch", MISMATCH_STATUS)
        /\ summaries[h].status = PlacingHost
        /\ summaries[h].unreservedOffers # {}
        /\ placingMatches[h] = 1

\* C1 as stated: at most one MATCH between the host entering Placing and the
\* next ClaimForLaunch or placing expiry.
C1_Original == \A h \in Hosts : matchWindow[h] <= 1

\* C2: a Placing host has a non-empty host-offer-id, a Ready or Held host
\* the empty one; every step that takes a host out of Placing to Ready or
\* Held (claim, release, expiry) leaves the id empty.
C2_HostOfferID ==
    /\ [](\A h \in Hosts :
            /\ summaries[h].status = PlacingHost =>
                   summaries[h].hostOfferID # emptyOfferID
            /\ summaries[h].status \in {ReadyHost, HeldHost} =>
                   summaries[h].hostOfferID = emptyOfferID)
    /\ [][\A h \in Hosts :
            (summaries[h].status = PlacingHost
             /\ summaries'[h].status \in {ReadyHost, HeldHost})
            => (/\ summaries[h].hostOfferID # emptyOfferID
                /\ summaries'[h].hostOfferID = emptyOfferID
                /\ lastCall'.op \in {"ClaimForLaunch", "ReturnPlacingHost",
                                     "ResetExpiredPlacingOfferStatus"})]_vars

\* A host that was matched has been released and its id is empty again.
C2_Witness ==
    \E h \in Hosts :
        /\ IsCall(lastCall, "ReturnPlacingHost", "ok")
        /\ summaries[h].hostOfferID = emptyOfferID
        /\ summaries[h].status \in {ReadyHost, HeldHost}
        /\ nextOfferID > 1

\* C3: readyCount is the number of unreserved offers of a Ready or Held
\* host, and 0 on a Placing or Reserved host, also after offers were added
\* to it.
C3_ReadyCount ==
    \A h \in Hosts :
        summaries[h].readyCount =
            IF summaries[h].status \in {ReadyHost, HeldHost}
            THEN Cardinality(summaries[h].unreservedOffers)
            ELSE 0

\* Offers were added to a Placing host and its readyCount is still 0.
C3_Witness ==
    \E h \in Hosts :
        /\ lastCall.op = "AddMesosOffers"
        /\ summaries[h].status = PlacingHost
        /\ Cardinality(summaries[h].unreservedOffers) = 2
        /\ summaries[h].readyCount = 0

\* C4: ClaimForLaunch on a host that is not Placing, or with an id other
\* than the host's current host-offer-id, returns an error and leaves the
\* status, the id, the offers, readyCount and the held tasks as they were.
C4_ClaimFrame ==
    /\ [](\A h \in Hosts, id \in 0..MaxOfferIDs, tasks \in SUBSET Tasks :
            (summaries[h].status # PlacingHost \/ id # summaries[h].hostOfferID)
            => (/\ ClaimForLaunch(summaries[h], id, tasks).err
                /\ ClaimForLaunch(summaries[h], id, tasks).offers = {}
                /\ ClaimForLaunch(summaries[h], id, tasks).s = summaries[h]))
    /\ [][IsCall(lastCall', "ClaimForLaunch", "error")
            => summaries' = summaries]_vars

\* A claim with a stale id was refused by a Placing host that holds offers
\* and tasks.
C4_Witness ==
    \E h \in Hosts :
        /\ IsCall(lastCall, "ClaimForLaunch", "error")
        /\ summaries[h].status = PlacingHost
        /\ summaries[h].hostOfferID = 2
        /\ summaries[h].unreservedOffers # {}
        /\ summaries[h].reservedOffers # {}
        /\ HeldSet(summaries[h]) # {}

C6_PlacingExpiry ==
    /\ [](\A h \in Hosts :
            ResetExpiredPlacingOfferStatus(summaries[h], now).reset
            <=> (summaries[h].status = PlacingHost
                 /\ now > summaries[h].statusPlacingOfferExpiration))
    /\ [][\A h \in Hosts :
            /\ (IsCall(lastCall', "ResetExpiredPlacingOfferStatus", "reset")
                /\ summaries[h].status = PlacingHost)
               => (/\ now > summaries[h].statusPlacingOfferExpiration
                   /\ summaries'[h].status =
                          IF HeldSet(summaries[h]) # {} THEN HeldHost ELSE ReadyHost
                   /\ summaries'[h].hostOfferID = emptyOfferID
                   /\ summaries'[h].readyCount =
                          Cardinality(summaries[h].unreservedOffers)
                   /\ summaries'[h].unreservedOffers = summaries[h].unreservedOffers
                   /\ summaries'[h].heldTasks = summaries[h].heldTasks)
            /\ IsCall(lastCall', "ResetExpiredPlacingOfferStatus", "noreset")
               => summaries' = summaries]_vars

\* An expired Placing host was reset with offers that came or went while it
\* was Placing.
C6_Witness ==
    \E h \in Hosts :
        /\ IsCall(lastCall, "ResetExpiredPlacingOfferStatus", "reset")
        /\ summaries[h].status \in {ReadyHost, HeldHost}
        /\ summaries[h].readyCount # prePlacing[h]
        /\ summaries[h].readyCount = Cardinality(summaries[h].unreservedOffers)

\* C6 as stated: the reset restores readyCount to the number of unreserved
\* offers the host had before it went Placing.
C6_Original ==
    [][\A h \in Hosts :
        (IsCall(lastCall', "ResetExpiredPlacingOfferStatus", "reset")
         /\ summaries[h].status = PlacingHost)
        => summaries'[h].readyCount = prePlacing[h]]_vars

(***************************************************************************)
(* Properties of the job runtime updater.  They are stated of every run    *)
(* the updater can make in a reachable state: of every answer of the       *)
(* materialized view, flag setting, staleness and state of the cache.      *)
(***************************************************************************)
NonTerminalCount(c) ==
    c["INITIALIZED"] + c["PENDING"] + c["RUNNING"] + c["KILLING"]

Determined(mv, flag, stale, unknown) ==
    determineJobRuntimeStateAndCounts(job, mv, taskCache, flag, stale, unknown)

\* C7 (as amended): while the task counts sum to less than instance_count
\* the computed state is INITIALIZED for a batch job and the current state
\* for a service job whose goal is neither KILLED nor DELETED; a service job
\* with goal KILLED or DELETED that has tasks is KILLED if one of them is
\* KILLED and FAILED otherwise.  (With the sum equal to instance_count the
\* state can be terminal.)
C7_PartiallyCreated ==
    \A mv \in StateSummaries(taskCache), flag, stale, unknown \in BOOLEAN :
        LET r == Determined(mv, flag, stale, unknown)
            total == getTotalInstanceCount(r.counts)
        IN (~r.err /\ total < job.instanceCount) =>
              r.state =
                 IF job.type = "BATCH" THEN "INITIALIZED"
                 ELSE IF job.goalState \notin {"KILLED", "DELETED"} \/ total = 0
                      THEN job.state
                 ELSE IF r.counts["KILLED"] > 0 THEN "KILLED"
                 ELSE "FAILED"

\* A batch job with one of its two tasks created and finished was left
\* INITIALIZED by the updater.
C7_Witness ==
    /\ run.result = "ok" /\ run.mv = "lt" /\ run.source = "mv"
    /\ job.type = "BATCH"
    /\ job.state = "INITIALIZED"
    /\ \E i \in Instances : taskCache[i] = "SUCCEEDED"

\* C7 as stated: with the counts summing to at most instance_count the
\* computed state is INITIALIZED, PENDING or the current state.
C7_Original ==
    \A mv \in StateSummaries(taskCache), flag, stale, unknown \in BOOLEAN :
        LET r == Determined(mv, flag, stale, unknown)
        IN (~r.err /\ getTotalInstanceCount(r.counts) <= job.instanceCount) =>
              r.state \in {"INITIALIZED", "PENDING", job.state}

\* C8 (as amended): for a fully created job without controller task whose
\* tasks are all terminal, the computed state is KILLED when a KILLED task
\* is present -- also next to FAILED or LOST tasks --, FAILED when a FAILED
\* or LOST task but no KILLED task is present, and SUCCEEDED otherwise.
C8_TerminalPrecedence ==
    \A mv \in StateSummaries(taskCache), flag, stale, unknown \in BOOLEAN :
        LET r == Determined(mv, flag, stale, unknown)
        IN (/\ ~r.err
            /\ ~job.hasControllerTask
            /\ getTotalInstanceCount(r.counts) = job.instanceCount
            /\ NonTerminalCount(r.counts) = 0) =>
              r.state =
                 IF r.counts["KILLED"] > 0 THEN "KILLED"
                 ELSE IF r.counts["FAILED"] > 0 \/ r.counts["LOST"] > 0
                      THEN "FAILED"
                 ELSE "SUCCEEDED"

\* The updater classified a job with one FAILED and one KILLED task KILLED.
C8_Witness ==
    /\ run.result = "ok" /\ run.source = "cache"
    /\ ~job.hasControllerTask
    /\ \E i \in Instances : taskCache[i] = "FAILED"
    /\ \E i \in Instances : taskCache[i] = "KILLED"
    /\ job.state = "KILLED"

\* C8 as stated: FAILED and KILLED tasks together, all tasks terminal and
\* the job fully created, give FAILED.
C8_Original ==
    \A mv \in StateSummaries(taskCache), flag, stale, unknown \in BOOLEAN :
        LET r == Determined(mv, flag, stale, unknown)
        IN (/\ ~r.err
            /\ ~job.hasControllerTask
            /\ getTotalInstanceCount(r.counts) = job.instanceCount
            /\ NonTerminalCount(r.counts) = 0
            /\ r.counts["FAILED"] > 0
            /\ r.counts["KILLED"] > 0) =>
              r.state = "FAILED"

\* C9 (as amended): when the counts of the materialized view sum to more
\* than instance_count, the updater derives state and reported counts from
\* the task cache if the job is a service job, the flag is on or the last
\* task update is stale, and the cache reports no task in UNKNOWN state; in
\* every other case -- a batch job with the flag off and a recent update --
\* it reports the counts of the materialized view and the state PENDING.
C9_DivergedView ==
    \A mv \in StateSummaries(taskCache), flag, stale, unknown \in BOOLEAN :
        LET r == Determined(mv, flag, stale, unknown)
            recalculate == job.type = "SERVICE" \/ flag \/ stale
        IN getTotalInstanceCount(mv) > job.instanceCount =>
              /\ ~r.err
              /\ (recalculate /\ ~unknown) =>
                     /\ r.source = "cache"
                     /\ r.counts = CacheCounts(taskCache)
                     /\ r.state = getState(job, CacheCounts(taskCache), taskCache).state
              /\ ~(recalculate /\ ~unknown) =>
                     /\ r.source = "mv"
                     /\ r.counts = mv
                     /\ r.state = "PENDING"

\* A batch job whose view held a row too many was classified KILLED from its
\* two KILLED cached tasks.
C9_Witness ==
    /\ run.result = "ok" /\ run.mv = "gt" /\ run.source = "cache"
    /\ job.type = "BATCH"
    /\ \A i \in Instances : taskCache[i] = "KILLED"
    /\ job.state = "KILLED"

\* C9 as stated: a view that sums to more than instance_count is always
\* replaced by the counts of the cache.
C9_Original ==
    \A mv \in StateSummaries(taskCache), flag \in BOOLEAN :
        LET r == Determined(mv, flag, FALSE, FALSE)
        IN getTotalInstanceCount(mv) > job.instanceCount =>
              /\ r.source = "cache"
              /\ r.counts = CacheCounts(taskCache)

\* C10: a job with a controller task is not given a terminal state while
\* the counts its state is computed from show a non-terminal task, whatever
\* the state of instance 0; the controller outcome replaces the state the
\* counts give only when all counted tasks are terminal.
C10_ControllerWaits ==
    \A mv \in StateSummaries(taskCache), flag, stale, unknown \in BOOLEAN :
        LET r == Determined(mv, flag, stale, unknown)
        IN (job.hasControllerTask /\ ~r.err) =>
              /\ NonTerminalCount(r.counts) > 0 =>
                     r.state \notin TerminalJobStates
              /\ (/\ getTotalInstanceCount(r.counts) >= job.instanceCount
                  /\ r.state # jobStateFromCounts(job, r.counts)) =>
                     /\ NonTerminalCount(r.counts) = 0
                     /\ taskCache[0] \in {"SUCCEEDED", "FAILED", "LOST"}

\* The controller task has failed, the other task still runs, and the
\* updater classified the job RUNNING from the cache.
C10_Witness ==
    /\ run.result = "ok" /\ run.source = "cache" /\ run.mv = "eq"
    /\ job.hasControllerTask
    /\ taskCache[0] \in {"FAILED", "LOST"}
    /\ taskCache[1] = "RUNNING"
    /\ job.state = "RUNNING"

\* C11: for a fully created job with a controller task whose counted tasks
\* are all terminal, the computed state is SUCCEEDED if instance 0 is
\* SUCCEEDED and FAILED if instance 0 is FAILED or LOST, whatever the states
\* of the other instances.
C11_ControllerDecides ==
    \A mv \in StateSummaries(taskCache), flag, stale, unknown \in BOOLEAN :
        LET r == Determined(mv, flag, stale, unknown)
        IN (/\ job.hasControllerTask
            /\ ~r.err
            /\ getTotalInstanceCount(r.counts) = job.instanceCount
            /\ NonTerminalCount(r.counts) = 0) =>
              /\ taskCache[0] = "SUCCEEDED" => r.state = "SUCCEEDED"
              /\ taskCache[0] \in {"FAILED", "LOST"} => r.state = "FAILED"

\* The controller task succeeded, the other task failed, and the updater
\* classified the job SUCCEEDED.
C11_Witness ==
    /\ run.result = "ok" /\ run.mv = "eq"
    /\ job.hasControllerTask
    /\ taskCache[0] = "SUCCEEDED"
    /\ taskCache[1] \in {"FAILED", "KILLED"}
    /\ job.state = "SUCCEEDED"

\* C12 (as amended): for a partially created service job whose goal state
\* is KILLED or DELETED and that has at least one instance, the computed
\* state is KILLED if an instance is KILLED and FAILED otherwise; when no
\* instance exists and the job is KILLED already, the computed state is
\* KILLED.
C12_PartialServiceKilled ==
    \A mv \in StateSummaries(taskCache), flag, stale, unknown \in BOOLEAN :
        LET r == Determined(mv, flag, stale, unknown)
            total == getTotalInstanceCount(r.counts)
        IN (/\ job.type = "SERVICE"
            /\ job.goalState \in {"KILLED", "DELETED"}
            /\ ~r.err
            /\ total < job.instanceCount) =>
              /\ total > 0 =>
                     r.state = IF r.counts["KILLED"] > 0 THEN "KILLED" ELSE "FAILED"
              /\ (total = 0 /\ job.state = "KILLED") => r.state = "KILLED"

\* A service job being deleted, with its one created instance FAILED, was
\* classified FAILED.
C12_Witness ==
    /\ run.result = "ok" /\ run.mv = "lt"
    /\ job.type = "SERVICE"
    /\ job.goalState = "DELETED"
    /\ taskCache[0] = "FAILED" /\ taskCache[1] = "NONE"
    /\ job.state = "FAILED"

\* C12 as stated: also when no instance exists the computed state is FAILED
\* unless an instance is KILLED.
C12_Original ==
    \A mv \in StateSummaries(taskCache), flag, stale, unknown \in BOOLEAN :
        LET r == Determined(mv, flag, stale, unknown)
        IN (/\ job.type = "SERVICE"
            /\ job.goalState \in {"KILLED", "DELETED"}
            /\ ~r.err
            /\ getTotalInstanceCount(r.counts) < job.instanceCount) =>
              r.state = IF r.counts["KILLED"] > 0 THEN "KILLED" ELSE "FAILED"

(***************************************************************************)
(* Properties of what the job runtime updater writes and enqueues.  They   *)
(* are stated of every run the updater can make in a reachable state.      *)
(***************************************************************************)
\* C13 (as amended): a run that determines a state writes the runtime to
\* cache and DB when the computed state differs from the current state and
\* also when the computed state equals the current state but the task
\* counts differ from the task stats of the runtime; a KILLED job with goal
\* KILLED and no task is left without any write.
C13_WriteOnChange ==
    \A d \in Determinations, statsDiffer, dbErr, lastZero \in BOOLEAN :
        LET o == RunJobRuntimeUpdater(job, d, taskCache, statsDiffer, dbErr,
                                      lastZero)
        IN /\ (/\ ~d.skip /\ ~d.r.err /\ ~dbErr
               /\ (d.r.state # job.state \/ statsDiffer)) =>
                  o.written.write = "CacheAndDB"
           /\ d.skip => (o.written.write = "none" /\ o.job = job)

\* A job that was KILLING and is computed KILLING again was written to cache
\* and DB.
C13_Witness ==
    /\ written.result = "ok"
    /\ written.write = "CacheAndDB"
    /\ ~written.stateChanged
    /\ job.state = "KILLING"
    /\ \E i \in Instances : taskCache[i] = "KILLING"

\* C13 as stated: the runtime is written to cache and DB only when the
\* computed state differs from the current state.
C13_Original ==
    \A d \in Determinations, statsDiffer, dbErr, lastZero \in BOOLEAN :
        LET o == RunJobRuntimeUpdater(job, d, taskCache, statsDiffer, dbErr,
                                      lastZero)
        IN o.written.write = "CacheAndDB" => d.r.state # job.state

\* C14 (as amended): a run that computes a terminal job state and writes it
\* to cache and DB enqueues the job exactly once; a run whose write fails
\* returns the error and does not enqueue the job.
C14_TerminalEnqueue ==
    \A d \in Determinations, statsDiffer, dbErr, lastZero \in BOOLEAN :
        LET o == RunJobRuntimeUpdater(job, d, taskCache, statsDiffer, dbErr,
                                      lastZero)
            changed == d.r.state # job.state \/ statsDiffer
        IN (~d.skip /\ ~d.r.err /\ d.r.state \in TerminalJobStates /\ changed) =>
              /\ ~dbErr => (o.written.write = "CacheAndDB"
                            /\ o.written.enqueues = 1)
              /\ dbErr => (o.written.result = "error"
                           /\ o.written.enqueues = 0)

\* A fully created job was computed SUCCEEDED, written and enqueued once.
C14_Witness ==
    /\ written.result = "ok"
    /\ written.write = "CacheAndDB"
    /\ written.enqueues = 1
    /\ job.state = "SUCCEEDED"
    /\ ~IsPartiallyCreated(job, taskCache)

\* C14 as stated: every run that computes a terminal job state enqueues the
\* job exactly once.
C14_Original ==
    \A d \in Determinations, statsDiffer, dbErr, lastZero \in BOOLEAN :
        LET o == RunJobRuntimeUpdater(job, d, taskCache, statsDiffer, dbErr,
                                      lastZero)
        IN (~d.skip /\ ~d.r.err /\ d.r.state \in TerminalJobStates) =>
              o.written.enqueues = 1

\* C15: every runtime the updater writes with a terminal state carries a
\* non-empty completion time, and the current time when no task was ever
\* updated (the last task update time is zero).
C15_CompletionTime ==
    \A d \in Determinations, statsDiffer, dbErr, lastZero \in BOOLEAN :
        LET o == RunJobRuntimeUpdater(job, d, taskCache, statsDiffer, dbErr,
                                      lastZero)
        IN (o.written.write = "CacheAndDB" /\ o.job.state \in TerminalJobStates) =>
              /\ o.written.completionTime # ""
              /\ lastZero => o.written.completionTime = "now"

\* A KILLED job whose tasks never ran was written with the current time as
\* its completion time.
C15_Witness ==
    /\ written.result = "ok"
    /\ written.write = "CacheAndDB"
    /\ written.completionTime = "now"
    /\ job.state = "KILLED"
    /\ \A i \in Instances : taskCache[i] = "KILLED"

(***************************************************************************)
(* Properties of the goal-state engine.                                    *)
(***************************************************************************)
\* C16: at no time do two workers run an action for the same entity-id,
\* however often the entity is enqueued again while its action runs; a
\* running action holds the lock of its entity.
C16_PerEntitySerialization ==
    /\ \A w1, w2 \in Workers :
           (/\ w1 # w2
            /\ worker[w1].state = "running"
            /\ worker[w2].state = "running") =>
               worker[w1].entity # worker[w2].entity
    /\ \A w \in Workers :
           worker[w].state = "running" => entityLock[worker[w].entity]

\* An entity was enqueued again while its action ran and was taken by the
\* other worker, which waits for the first to finish.
C16_Witness ==
    \E w1, w2 \in Workers :
        /\ worker[w1].state = "running"
        /\ worker[w2].state = "waiting"
        /\ worker[w2].entity = worker[w1].entity

\* C17: Enqueue is idempotent.  The queue never holds two entries of one
\* entity, enqueueing the same entity and deadline twice is the same as
\* once, and an Enqueue of a queued entity leaves its one entry with the
\* earlier of the existing and the requested deadline.
C17_EnqueueIdempotent ==
    /\ [](/\ \A e \in Entities : Cardinality(EntriesOf(queue, e)) <= 1
          /\ \A e \in Entities, d \in Deadlines :
                 Enqueue(Enqueue(queue, e, d), e, d) = Enqueue(queue, e, d))
    /\ [][engineCall'.op = "Enqueue" =>
            LET e == engineCall'.entity
                old == EntriesOf(queue, e)
            IN /\ Cardinality(EntriesOf(queue', e)) = 1
               /\ \A x \in EntriesOf(queue', e) :
                      x.deadline =
                         IF old = {} THEN engineCall'.deadline
                         ELSE Min(engineCall'.deadline,
                                  MinOf({y.deadline : y \in old}))
               /\ queue' \ EntriesOf(queue', e) = queue \ old]_vars

\* An entity queued with an earlier deadline was enqueued again with a
\* later one and kept its one entry, with the earlier deadline.
C17_Witness ==
    /\ engineCall.op = "Enqueue"
    /\ \E x \in queue :
           /\ x.entity = engineCall.entity
           /\ x.deadline < engineCall.deadline
    /\ Cardinality(EntriesOf(queue, engineCall.entity)) = 1

(***************************************************************************)
(* Properties of recovery.                                                 *)
(***************************************************************************)
Visited(j) == visit[j] # NotVisited

FetchFailed(j) == visit[j].fetched \in {"runtimeError", "configError"}

\* C18: recovery deletes a job it visits from the active set if and only if
\* its runtime or config is not found or it is a terminal job of batch
\* type; a job leaves the active set only by such a deletion, and terminal
\* service jobs and jobs whose fetch failed with another store error stay
\* in the active set.
C18_DeleteFromActiveSet ==
    \A j \in RecoveryJobs :
        LET s == jobStore[j]
            v == visit[j]
        IN /\ v.deleteCalled <=>
                  \/ v.fetched \in {"runtimeNotFound", "configNotFound"}
                  \/ v.fetched = "ok" /\ s.terminal /\ s.type = "BATCH"
           /\ j \notin activeJobs => v.deleteCalled
           /\ (v.fetched = "ok" /\ s.terminal /\ s.type = "SERVICE") =>
                  j \in activeJobs
           /\ FetchFailed(j) => j \in activeJobs

\* Recovery deleted a terminal batch job and a job with a missing runtime,
\* and left a terminal service job it visited in the active set.
C18_Witness ==
    \E j1, j2, j3 \in RecoveryJobs :
        /\ visit[j1].fetched = "ok" /\ jobStore[j1].terminal
        /\ jobStore[j1].type = "BATCH" /\ j1 \notin activeJobs
        /\ visit[j2].fetched = "ok" /\ jobStore[j2].terminal
        /\ jobStore[j2].type = "SERVICE" /\ j2 \in activeJobs
        /\ visit[j3].fetched = "runtimeNotFound" /\ j3 \notin activeJobs

\* C19 (as amended): a job whose runtime cannot be fetched for a store
\* error other than not-found is skipped: it stays in the active set, is
\* not handed to the recovery of its tasks, and does not make recovery
\* fail; a batch fails only for a failed recovery of tasks or a failed
\* fetch of a config.
C19_RuntimeErrorSkipped ==
    /\ \A j \in RecoveryJobs :
           visit[j].fetched = "runtimeError" =>
               /\ j \in activeJobs
               /\ ~visit[j].deleteCalled
               /\ visit[j].recovered = "none"
    /\ recovery.result = "batchError" =>
           \E j \in RecoveryJobs :
               \/ visit[j].recovered = "failed"
               \/ visit[j].fetched = "configError"

\* Recovery returned without error although the fetch of a runtime failed.
C19_Witness ==
    /\ recovery = Recovery("done", "ok")
    /\ \E j \in RecoveryJobs : visit[j].fetched = "runtimeError"

\* C19 as stated, for the runtime: recovery that met a failed fetch of a
\* runtime does not complete successfully.
C19_Original ==
    (/\ recovery.phase = "done"
     /\ \E j \in RecoveryJobs : visit[j].fetched = "runtimeError") =>
        recovery.result # "ok"

\* C20 (as amended): RecoverActiveJobs reports failure if and only if the
\* listing of the active jobs fails or a job batch fails; the batches that
\* did not fail are processed to their end, and a batch does not fail for
\* a failed deletion from the active set.
C20_RecoveryFails ==
    /\ recovery.phase = "done" =>
           /\ recovery.result # "ok" <=>
                  \/ recovery.result = "listError"
                  \/ failedBatches # {}
           /\ recovery.result = "listError" =>
                  /\ failedBatches = {}
                  /\ \A j \in RecoveryJobs : ~Visited(j)
           /\ recovery.result # "listError" =>
                  \A batch \in JobBatches \ failedBatches :
                      \A j \in batch : Visited(j)
    /\ \A batch \in failedBatches :
           \E j \in batch :
               \/ visit[j].recovered = "failed"
               \/ visit[j].fetched = "configError"

\* One batch failed, the other was recovered to its end, a deletion from
\* the active set failed, and recovery reports the failure of the batch.
C20_Witness ==
    /\ recovery = Recovery("done", "batchError")
    /\ \E batch \in JobBatches \ failedBatches :
           \A j \in batch : visit[j].recovered = "ok"
    /\ \E j \in RecoveryJobs : visit[j].deleteCalled /\ j \in activeJobs

\* C20 as stated: recovery fails if and only if a job batch failed.
C20_Original ==
    recovery.phase = "done" =>
        (recovery.result # "ok" <=> failedBatches # {})

(***************************************************************************)
(* Properties of the rolling-workflow controller.                          *)
(***************************************************************************)
IsTick == wfCall'.op = "Tick"

\* C21: at all times the number of instances in flight (operation issued,
\* no terminal transitioned state yet) is at most batch_size, in both
\* directions of the workflow; a tick issues no more operations than the
\* batch size leaves room for.
C21_InFlightWithinBatch ==
    /\ [](Cardinality(InFlight(instState)) <= workflow.batchSize)
    /\ [][IsTick =>
            Cardinality(wfCall'.issued)
                <= workflow.batchSize - Cardinality(InFlight(instState))]_vars

\* The batch is full after a tick and instances are left to issue.
C21_Witness ==
    /\ wfCall.op = "Tick"
    /\ Cardinality(InFlight(instState)) = workflow.batchSize
    /\ ToIssue(workflow.state, instState) # {}
    /\ workflow.maxUnavailable > workflow.batchSize

\* C22: at all times the number of unavailable instances is at most
\* maximum_unavailable_instances; a tick that finds the bound reached and
\* an available instance next in line issues no operation and leaves the
\* workflow where it is.
C22_UnavailableWithinSLA ==
    /\ [](Cardinality(Unavailable(instState)) <= workflow.maxUnavailable)
    /\ [][(/\ IsTick
           /\ Cardinality(Unavailable(instState)) = workflow.maxUnavailable
           /\ ToIssue(workflow.state, instState) # {}
           /\ MinOf(ToIssue(workflow.state, instState))
                  \notin Unavailable(instState)) =>
              /\ wfCall'.issued = {}
              /\ instState' = instState]_vars

\* The controller stalls: the batch has room and instances are left, but
\* the bound of the SLA is reached and the tick issued nothing.
C22_Witness ==
    /\ wfCall = WfCall("Tick", {})
    /\ workflow.state = "ROLLING_FORWARD"
    /\ ToIssue(workflow.state, instState) # {}
    /\ Cardinality(InFlight(instState)) < workflow.batchSize
    /\ Cardinality(Unavailable(instState)) = workflow.maxUnavailable

FailedForward == Cardinality(Failed("ROLLING_FORWARD", instState))

\* C23 (as amended): on a tick of a workflow that rolls forward with
\* max_tolerable_instance_failures > 0, failed >= max_tolerable moves the
\* workflow to ROLLING_BACKWARD when rollback_on_failure is set and to
\* FAILED otherwise; with max_tolerable_instance_failures = 0 there is no
\* limit and no tick fails or rolls back the workflow.
C23_FailureTolerance ==
    [][(IsTick /\ workflow.state = "ROLLING_FORWARD") =>
          /\ (workflow.maxTolerable > 0
              /\ FailedForward >= workflow.maxTolerable) =>
                 workflow'.state = IF workflow.rollback
                                   THEN "ROLLING_BACKWARD" ELSE "FAILED"
          /\ workflow.maxTolerable = 0 =>
                 workflow'.state \notin {"ROLLING_BACKWARD", "FAILED"}]_vars

\* A tick rolled the workflow back for the failed instances it counted.
C23_Witness ==
    /\ wfCall.op = "Tick"
    /\ workflow.state = "ROLLING_BACKWARD"
    /\ workflow.rollback
    /\ workflow.maxTolerable > 0
    /\ FailedForward >= workflow.maxTolerable
    /\ InFlight(instState) \cap wfCall.issued # {}

\* C23 as stated: for max_tolerable_instance_failures = 0 as well.
C23_Original ==
    [][(/\ IsTick
        /\ workflow.state = "ROLLING_FORWARD"
        /\ FailedForward >= workflow.maxTolerable) =>
           workflow'.state = IF workflow.rollback
                             THEN "ROLLING_BACKWARD" ELSE "FAILED"]_vars

(***************************************************************************)
(* Further properties of the host summary.                                 *)
(***************************************************************************)
\* The host after HoldForTask(task) followed by ReleaseHoldForTask(task).
HoldAndRelease(s, task, t) == ReleaseHoldForTask(HoldForTask(s, task, t), task)

Matching(h, f) == TryMatch(summaries[h], h, f, nextOfferID, now)

\* C27: TryMatch on a Held host whose name the hint of the filter does not
\* carry returns MISMATCH_STATUS and leaves the host as it is; with the
\* host named by the hint it returns MATCH exactly when the remaining rules
\* pass, and the host then goes from Held to Placing with a host-offer-id
\* that is not empty and was not handed out before.
C27_HeldNeedsHint ==
    \A h \in Hosts, f \in Filters :
        LET s == summaries[h]
            m == Matching(h, f)
            passes == HasOffer(s) /\ matchHostFilter(s, h, f) = MATCH
        IN s.status = HeldHost =>
              /\ h \notin f.hint =>
                     /\ m.result = MISMATCH_STATUS
                     /\ m.s = s
                     /\ m.offers = {}
              /\ (h \in f.hint /\ passes) =>
                     /\ m.result = MATCH
                     /\ m.s.status = PlacingHost
                     /\ m.s.hostOfferID = nextOfferID
                     /\ m.s.hostOfferID # emptyOfferID
                     /\ m.s.hostOfferID # s.hostOfferID
                     /\ m.s.heldTasks = s.heldTasks
              /\ (h \in f.hint /\ ~passes) =>
                     /\ m.result \notin {MATCH, MISMATCH_STATUS}
                     /\ m.s = s

\* A Held host with an offer has just refused a filter without the hint;
\* a filter that names the host would match it.
C27_Witness ==
    \E h \in Hosts :
        /\ lastCall = Call("TryMatch", h, MISMATCH_STATUS)
        /\ summaries[h].status = HeldHost
        /\ \E f \in Filters : Matching(h, f).result = MATCH

\* C28: a host that carries a scarce resource type is never matched to a
\* filter that does not ask for that resource; when the host has offers
\* and its status admits the filter, the result is SCARCE_RESOURCES, and
\* the host is left as it is.
C28_ScarceHostsExclusive ==
    \A h \in scarceHosts, f \in Filters :
        LET s == summaries[h]
            m == Matching(h, f)
        IN f.gpu = 0 =>
              /\ m.result # MATCH
              /\ m.s = s
              /\ (/\ s.status \in {ReadyHost, HeldHost}
                  /\ s.status = HeldHost => h \in f.hint
                  /\ HasOffer(s)) => m.result = SCARCE_RESOURCES

\* A Ready host with the scarce resource in its offers has just refused a
\* filter for scarce resources.
C28_Witness ==
    \E h \in scarceHosts :
        /\ lastCall = Call("TryMatch", h, SCARCE_RESOURCES)
        /\ summaries[h].status = ReadyHost
        /\ SumRes(summaries[h].unreservedOffers, "gpu") > 0
        /\ SumRes(summaries[h].unreservedOffers, "cpu") > 0

\* C29: a filter that is not revocable and asks for more cpu than the
\* non-revocable unreserved offers of the host carry is never matched,
\* however much revocable cpu the host offers, and the host is left as it
\* is; on a Ready host with offers that passes the rules before the
\* resources the result is INSUFFICIENT_OFFER_RESOURCES.
C29_NoRevocableForNonRevocable ==
    \A h \in Hosts, f \in Filters :
        LET s == summaries[h]
            m == Matching(h, f)
        IN (~f.revocable /\ f.cpu > SumRes(s.unreservedOffers, "cpu")) =>
              /\ m.result # MATCH
              /\ m.s = s
              /\ (/\ s.status = ReadyHost
                  /\ HasOffer(s)
                  /\ ~(h \in scarceHosts /\ f.gpu = 0)
                  /\ f.evaluate \in {"Match", "NotApplicable"}) =>
                     m.result = INSUFFICIENT_OFFER_RESOURCES

\* A Ready host whose revocable cpu would cover a demand that its
\* non-revocable cpu does not has just refused a filter for resources.
C29_Witness ==
    \E h \in Hosts :
        /\ lastCall = Call("TryMatch", h, INSUFFICIENT_OFFER_RESOURCES)
        /\ summaries[h].status = ReadyHost
        /\ SumRes(summaries[h].unreservedOffers, "cpu") < MaxCpu
        /\ SumRes(summaries[h].unreservedOffers, "revCpu") >= MaxCpu
        /\ SumRes(summaries[h].unreservedOffers, "gpu") > 0

\* Every order in which the offers of a set can be removed one by one.
RECURSIVE RemovalOrders(_)
RemovalOrders(O) ==
    IF O = {} THEN {<<>>}
    ELSE UNION {{<<o>> \o rest : rest \in RemovalOrders(O \ {o})} : o \in O}

\* RemoveMesosOffer for each offer of the order in turn.
RECURSIVE RemoveOffers(_, _)
RemoveOffers(s, order) ==
    IF order = <<>> THEN s
    ELSE RemoveOffers(RemoveMesosOffer(s, Head(order)), Tail(order))

C30_EveryRpcHasDeadline == \A r \in rpcLog : r.deadline # NoDeadline

\* The RPCs that kill a task have gone out for a caller without a
\* deadline, each with the default timeout.
C30_Witness ==
    /\ killCall.ctx = NoDeadline
    /\ killCall.op = "KillOrphanTask"
    /\ Rpc("KillTasks", defaultKillTaskActionTimeout) \in rpcLog
    /\ Rpc("KillAndReserveTasks", defaultKillTaskActionTimeout) \in rpcLog

\* The hosts whose held-task set has the task.
HoldersOf(task) == {h \in PoolHosts : task \in HeldSet(pool[h])}

C36_ReturnPlacingHost ==
    \A h \in Hosts :
        LET s == summaries[h]
            r == ReturnPlacingHost(s)
        IN /\ s.status # PlacingHost => (r.err /\ r.s = s)
           /\ s.status = PlacingHost =>
                 /\ ~r.err
                 /\ r.s.status = IF HeldSet(s) # {} THEN HeldHost ELSE ReadyHost
                 /\ r.s.hostOfferID = emptyOfferID
                 /\ r.s.heldTasks = s.heldTasks
                 /\ r.s.unreservedOffers = s.unreservedOffers
                 /\ \A f \in Filters :
                       h \in f.hint =>
                          /\ TryMatch(s, h, f, nextOfferID, now).result
                                 = MISMATCH_STATUS
                          /\ TryMatch(r.s, h, f, nextOfferID, now).result = MATCH
                                 <=> (/\ s.unreservedOffers # {}
                                      /\ matchHostFilter(s, h, f) = MATCH)

\* A Placing host with held tasks and offers has just been returned.
C36_Witness ==
    \E h \in Hosts :
        /\ lastCall = Call("ReturnPlacingHost", h, "ok")
        /\ summaries[h].status = HeldHost
        /\ HasOffer(summaries[h])
        /\ \E f \in Filters : Matching(h, f).result = MATCH

\* C37: ResetExpiredHostHeldStatus(t) drops exactly the held tasks whose
\* expiration is before t and keeps the others with their expirations; a
\* Held host becomes Ready exactly when no held task is left, and a Placing
\* host stays Placing even when all its held tasks expire.
C37_HeldExpiryPerTask ==
    \A h \in Hosts, t \in 0..(MaxTime + 2) :
        LET s == summaries[h]
            r == ResetExpiredHostHeldStatus(s, t)
        IN /\ HeldSet(r.s) = {x \in HeldSet(s) : ~(s.heldTasks[x] < t)}
           /\ r.expired = HeldSet(s) \ HeldSet(r.s)
           /\ \A x \in HeldSet(r.s) : r.s.heldTasks[x] = s.heldTasks[x]
           /\ s.status = HeldHost =>
                 /\ r.s.status \in {HeldHost, ReadyHost}
                 /\ r.s.status = ReadyHost <=> HeldSet(r.s) = {}
           /\ s.status # HeldHost => r.s.status = s.status
           /\ r.s.unreservedOffers = s.unreservedOffers

\* The sweep has just dropped one held task of a host and kept the other,
\* whose expiration is later.
C37_Witness ==
    \E h \in Hosts :
        /\ lastCall = Call("ResetExpiredHostHeldStatus", h, "reset")
        /\ summaries[h].status = HeldHost
        /\ Cardinality(HeldSet(summaries[h])) = 1
        /\ \A x \in HeldSet(summaries[h]) : summaries[h].heldTasks[x] >= now

\* C38: a TryMatch that returns anything but MATCH returns no offers and
\* leaves the summary as it was: status, host-offer-id, offers, readyCount.
C38_MismatchChangesNothing ==
    \A h \in Hosts, f \in Filters :
        LET s == summaries[h]
            m == Matching(h, f)
        IN m.result # MATCH =>
              /\ m.offers = {}
              /\ m.s.status = s.status
              /\ m.s.hostOfferID = s.hostOfferID
              /\ m.s.unreservedOffers = s.unreservedOffers
              /\ m.s.reservedOffers = s.reservedOffers
              /\ m.s.readyCount = s.readyCount
              /\ m.s = s

\* A Ready host with offers has just refused a filter for its constraint.
C38_Witness ==
    \E h \in Hosts :
        /\ lastCall = Call("TryMatch", h, MISMATCH_CONSTRAINTS)
        /\ summaries[h].status = ReadyHost
        /\ HasOffer(summaries[h])
        /\ summaries[h].hostOfferID = emptyOfferID

\* C39: a host that has entered Placing and is neither claimed nor
\* released, with the expiration of the placing inside the time the clock
\* covers, does not stay Placing for ever while the clock advances and the
\* background sweep keeps running: it returns to Ready, or to Held when
\* tasks are held on it.
C39_PlacingEventuallyLeft ==
    \A h \in Hosts :
        (/\ summaries[h].status = PlacingHost
         /\ summaries[h].statusPlacingOfferExpiration < MaxTime)
            ~> (/\ summaries[h].status
                       = IF HeldSet(summaries[h]) # {} THEN HeldHost
                         ELSE ReadyHost
                /\ summaries[h].hostOfferID = emptyOfferID)

\* The sweep has just brought an expired Placing host with offers back to
\* Ready, where a filter matches it again.
C39_Witness ==
    \E h \in Hosts :
        /\ lastCall = Call("ResetExpiredPlacingOfferStatus", h, "reset")
        /\ summaries[h].status = ReadyHost
        /\ summaries[h].hostOfferID = emptyOfferID
        /\ HasOffer(summaries[h])
        /\ \E f \in Filters : Matching(h, f).result = MATCH

\* C32: when a rate limiter is supplied and rejects the request, KillTask,
\* with or without a host to reserve, and ShutdownMesosExecutor return the
\* resource-exhausted error and send no RPC; without a rate limiter no call
\* returns that error. Stated for the context of the last call and every
\* other input.
C32_RateLimitRejects ==
    \A resp \in Responses, parseOk \in BOOLEAN, hostToReserve \in {"", "h1"} :
        LET ctx == killCall.ctx
            kill(l) == KillTask(ctx, hostToReserve, parseOk, l, resp)
            shut(l) == ShutdownMesosExecutor(ctx, l, resp)
        IN /\ kill("deny") = NoRpc("ResourceExhausted")
           /\ shut("deny") = NoRpc("ResourceExhausted")
           /\ kill("nil").err # "ResourceExhausted"
           /\ shut("nil").err # "ResourceExhausted"
           /\ shut("nil").sent # {}
           /\ (hostToReserve = "" \/ parseOk) => kill("nil").sent # {}
           /\ kill("allow") = kill("nil")
           /\ shut("allow") = shut("nil")

\* Every call so far was rejected by its rate limiter, the last of them a
\* KillTask, and no RPC has gone out.
C32_Witness ==
    /\ killCall.op = "KillTask"
    /\ killCall.err = "ResourceExhausted"
    /\ rpcLog = {}

\* C31: every host action of the client exits with a code that is not zero
\* when the RPC it issued failed, and exits with zero only when that RPC
\* succeeded.
C31_ExitCodeFollowsRpc ==
    \A d \in cliLog :
        /\ d.rpc = "failed" => d.exit # 0
        /\ d.exit = 0 => d.rpc = "ok"

\* The actions that hand the error of their RPC on have each failed on it
\* and exited with a code that is not zero.
C31_Witness ==
    \A a \in {"HostMaintenanceStart", "HostMaintenanceComplete", "HostQuery",
              "DisableKillTasks"} :
        /\ [action |-> a, rpc |-> "failed", exit |-> 1] \in cliLog
        /\ [action |-> a, rpc |-> "ok", exit |-> 0] \in cliLog

AllReturned ==
    \A g \in Goroutines : fPc[g] = "idle" /\ fCalls[g] = MaxCalls

\* C34: with goroutines calling AddJob and GetJob while the publisher
\* iterates, a goroutine that has not finished can always be followed by
\* a step, so nothing deadlocks; every job AddJob returned for an id is
\* the one job the cache has for that id, so no added job is lost and a
\* repeated AddJob returns the same job; and the publisher only counts
\* jobs of the cache.
C34_NoDeadlockNoLostJob ==
    /\ ~AllReturned => ENABLED FactoryNext
    /\ \A pair \in fReturned :
          /\ pair[2] # NoJob
          /\ fJobs[pair[1]] = pair[2]
    /\ \A a \in fReturned, b \in fReturned : a[1] = b[1] => a[2] = b[2]
    /\ \A id \in fPublished : fJobs[id] # NoJob
    /\ fWriter # NoGoroutine => fReaders = {}

\* All calls have returned, both adders added the same id twice, and the
\* cache holds the one job all of them returned.
C34_Witness ==
    /\ AllReturned
    /\ \A g \in Adders : fArg[g] = "id1"
    /\ fJobs["id2"] = NoJob
    /\ fReturned = {<<"id1", fJobs["id1"]>>}
    /\ fPublished = {"id1"}

\* The rollback, GetActiveTasks and SetPlacement have completed.
ScenarioDone ==
    \A g \in {"rollback", "getActiveTasks", "setPlacement"} :
        trPc[g] = "done"

\* Every goroutine of the tracker has made its calls and has returned.
TrackerAllDone ==
    /\ ScenarioDone
    /\ \A g \in TrackerCallers : trPc[g] = "idle" /\ trCalls[g] = MaxCalls

TypeOK ==
    /\ \A h \in Hosts : summaries[h].status \in HostStatus
    /\ now \in Time
====
